---- MODULE Spec2Model ----
(***************************************************************************)
(* Model of the EUR/USD trading bot: the LiveTradingManager (safety state  *)
(* machine), the TradingBot (cycle orchestrator) and the RiskManager.      *)
(*                                                                         *)
(* JavaScript runs one synchronous segment at a time; a segment ends at an *)
(* await on a broker/predictor call.  Every action below is one such       *)
(* segment: it starts when a call is made or a response arrives and runs   *)
(* to the next await.  The broker, the predictor, the clock and the host   *)
(* (UI) are the environment; their answers are drawn with \E.              *)
(*                                                                         *)
(* Fields that the program only writes and never reads (state.warnings,   *)
(* state.errors, state.lastTradeTime, state.totalTrades, state.dailyPnL of *)
(* the manager, TradingBot.trades, the console) are left out.              *)
(*                                                                         *)
(* Units: money in account currency, sizes in 1/100 lot, prices in pips    *)
(* (1/10000), input confidences in 1/1000, fused confidences in 1/10000.   *)
(***************************************************************************)
EXTENDS Integers, Sequences, FiniteSets, TLC

\* ---------------------------------------------------------------- bounds
\* cycles that may be in flight at the same time
MaxCycles == 2
\* length of the emergency-stop history explored
MaxHistory == 2
\* positions the broker lets the account open
MaxBrokerPositions == 2
\* clock readings explored
MaxTime == 2
\* snapshot lengths between which the broker delivers a new candle
FirstBar == 49
MaxBars == 50
\* losing trades in a row delivered to the manager
MaxOutcomes == 6
\* emergency stops whose position close-out is still outstanding
MaxStopCalls == 1
\* position updates whose balance request is still outstanding
MaxPending == 1
\* positions handed to a RiskManager call made directly
MaxProbePositions == 2
\* largest daily PnL, either way, that updateDailyPnL is driven to
MaxAbsDailyPnL == 750
\* candles the broker delivers to a snapshot followed candle by candle
MaxCandles == 503

\* ------------------------------------------------------- program constants
MinBarsForIndicators == 50
SnapshotLimit == 500
ExecutionGate == 7500
TechWeight == 4
AiWeight == 6
DisagreeConfidence == 3000
DrawdownLiquidationPercent == 10
PipsPerLotDivisor == 10
SizeCapFactor == 2
LowBalance == 1000
MinRiskReward10 == 15
KellyCapPercent == 25
\* Number.POSITIVE_INFINITY, above every size in 1/100 lot that is computed
Infinity == 1000000000

\* ------------------------------------------------------------ environment
\* the balance the broker reports
Balance == 10000
\* the mid price the broker quotes, in pips
QuotedPrice == 10850
\* unrealized PnL the refresh can compute for each open position
PositionPnLs == {-1000, -500, 0}
\* candle counts the initial history request can return
HistoryCounts == {49, 50}
\* what the technical analysis and the predictor can answer
TechnicalSignals ==
  { [signal |-> "hold", confidence |-> 300],
    [signal |-> "buy", confidence |-> 800],
    [signal |-> "sell", confidence |-> 800] }
AISignals ==
  { [signal |-> "hold", confidence |-> 500],
    [signal |-> "buy", confidence |-> 750],
    [signal |-> "sell", confidence |-> 950] }
\* balances the broker can report to verifyAccount
InitBalances == {0, 500, Balance}
\* clock readings per calendar day
TicksPerDay == 2
\* trading-hours window of the configuration, as clock readings
HoursStart == 0
HoursEnd == 1

Kinds == {"daily_loss", "consecutive_losses", "drawdown", "manual",
          "connection_lost", "account_error"}

\* LiveTradingConfig / BotConfig values the model is run with: DEMO_CONFIG
\* and LIVE_CONFIG with the store's default BotConfig, except that the limit
\* on concurrent trades is 1 and that the Live BotConfig has the AI
\* confidence set to 0.8.  riskPerTrade is in 1/10 percent.
DemoConfig ==
  [ isLive |-> FALSE, hasApiKey |-> TRUE, hasAccountId |-> TRUE,
    maxDailyLossPercent |-> 5, riskPerTrade |-> 20, maxPositionSize |-> 100,
    maxDrawdownPercent |-> 5, confidenceThreshold |-> 700,
    requireManualConfirmation |-> FALSE, maxConsecutiveLosses |-> 5,
    tradingHoursEnabled |-> FALSE,
    maxConcurrentTrades |-> 1, dailyRiskLimit |-> 5, accountBalance |-> 10000,
    stopLoss |-> 50, takeProfit |-> 100, positionSize |-> 50, maxRisk |-> 2,
    aiConfidence |-> 700 ]

LiveConfig ==
  [ DemoConfig EXCEPT !.isLive = TRUE, !.maxDailyLossPercent = 3,
    !.riskPerTrade = 15,
    !.maxPositionSize = 50, !.maxDrawdownPercent = 3,
    !.confidenceThreshold = 750, !.requireManualConfirmation = TRUE,
    !.maxConsecutiveLosses = 3, !.tradingHoursEnabled = TRUE,
    !.aiConfidence = 800 ]

Configs == {DemoConfig, LiveConfig}

VARIABLES
  cfg,                  \* LiveTradingManager.config and TradingBot.config
  now,                  \* the clock (new Date())
  accountVerified, isConnected, emergencyStopActive, consecutiveLosses,
  sessionStartTime, emergencyStopReasons,
  startCall,            \* the startLiveTrading call in flight
  lastReturn,           \* what the last startLiveTrading or
                        \* clearEmergencyStop call returned
  stopCalls,
             \* triggerEmergencyStop calls awaiting closeAllPositions
  pendingUpdates,       \* handlePositionUpdate calls awaiting the balance
  apiReady,             \* TradingBot.oandaAPI !== null
  isRunning, tradingInterval, armedTimers, isActive,
  marketLen, currentPrice, indicators, positions,
  rmDailyPnL,           \* RiskManager.dailyPnL
  dailyTrades,          \* RiskManager.dailyTrades
  lastResetDate,        \* RiskManager.lastResetDate
  initCall,             \* the initializeLiveTrading call in flight
  lowBalanceAlert,      \* verifyAccount raised its low-balance alert
  probe,                \* the last call that is followed for itself: its
                        \* arguments and its result
  cyc,                  \* the trading cycles in flight
  brokerOpen            \* positions open at the broker

mgrVars == <<accountVerified, isConnected, emergencyStopActive,
             consecutiveLosses, sessionStartTime, emergencyStopReasons>>
callVars == <<startCall, lastReturn, stopCalls, pendingUpdates>>
rmVars == <<rmDailyPnL, dailyTrades, lastResetDate>>
sideVars == <<initCall, lowBalanceAlert, probe>>
botVars == <<apiReady, isRunning, tradingInterval, armedTimers, isActive,
             marketLen, currentPrice, indicators, positions, rmVars>>
vars == <<cfg, sideVars, now, mgrVars, callVars, botVars, cyc, brokerOpen>>

Cycles == 1..MaxCycles

NoSignal == [signal |-> "none", confidence |-> 0]

IdleCycle ==
  [ pc |-> "idle", breached |-> FALSE,
    fused |-> NoSignal, allowed |-> FALSE, valid |-> FALSE,
    submitted |-> FALSE ]

IdleCall == [pc |-> "idle", confirmed |-> FALSE]

Last(s) == s[Len(s)]

RECURSIVE SumSeq(_)
SumSeq(s) == IF s = <<>> THEN 0 ELSE Head(s) + SumSeq(Tail(s))

Abs(x) == IF x < 0 THEN -x ELSE x

NoProbe == [fn |-> "none"]

Init ==
  /\ cfg \in Configs
  /\ now = 0
  /\ accountVerified = FALSE
  /\ isConnected = FALSE
  /\ emergencyStopActive = FALSE
  /\ consecutiveLosses = 0
  /\ sessionStartTime = 0
  /\ emergencyStopReasons = <<>>
  /\ startCall = IdleCall
  /\ lastReturn = "none"
  /\ stopCalls = 0
  /\ pendingUpdates = {}
  /\ apiReady = FALSE
  /\ isRunning = FALSE
  /\ tradingInterval = FALSE
  /\ armedTimers = 0
  /\ isActive = FALSE
  /\ marketLen = 0
  /\ currentPrice = 0
  /\ indicators = FALSE
  /\ positions = <<>>
  /\ rmDailyPnL = 0
  /\ dailyTrades = 0
  /\ lastResetDate = 0
  /\ initCall = "idle"
  /\ lowBalanceAlert = FALSE
  /\ probe = NoProbe
  /\ cyc = [c \in Cycles |-> IdleCycle]
  /\ brokerOpen = 0


\* ------------------------------------------------------------ RiskManager

\* new Date().toDateString()
DateOf(t) == t \div TicksPerDay

\* resetDailyCounters that keeps the PnL of the day before
ResetDailyCountersMutant ==
  IF lastResetDate # DateOf(now)
    THEN /\ rmDailyPnL' = rmDailyPnL
         /\ dailyTrades' = 0
         /\ lastResetDate' = DateOf(now)
    ELSE UNCHANGED rmVars

\* resetDailyCounters
ResetDailyCounters ==
  IF lastResetDate # DateOf(now)
    THEN /\ rmDailyPnL' = 0
         /\ dailyTrades' = 0
         /\ lastResetDate' = DateOf(now)
    ELSE UNCHANGED rmVars

\* Math.round(n / d) for d > 0: halves go up
RoundDiv(n, d) == (2 * n + d) \div (2 * d)

\* lots = balance * risk% / (pips * 0.0001) / 100000, rounded to 0.01 lot.
\* A negative distance gives the quotient its sign; a distance of zero
\* divides by zero, which is Infinity for a positive risk amount and
\* -Infinity for a negative one (0 / 0, NaN, is not among the inputs).
CalculatePositionSize(accountBalance, stopLossDistance, riskPercentage) ==
  IF stopLossDistance > 0
    THEN RoundDiv(accountBalance * riskPercentage,
                  stopLossDistance * PipsPerLotDivisor)
  ELSE IF stopLossDistance < 0
    THEN RoundDiv(-(accountBalance * riskPercentage),
                  -(stopLossDistance * PipsPerLotDivisor))
  ELSE IF accountBalance * riskPercentage > 0 THEN Infinity
  ELSE -Infinity

\* calculateKellyPositionSize: winRate in percent; the Kelly fraction is
\* kelly / (100 * avgWin), capped at 25%
CalculateKellyPositionSize(accountBalance, winRate, avgWin, avgLoss) ==
  LET kelly == winRate * avgWin - (100 - winRate) * avgLoss
  IN IF winRate <= 0 \/ avgWin <= 0 \/ avgLoss <= 0
       THEN cfg.positionSize
     ELSE IF kelly <= 0
       THEN cfg.positionSize \div 2
     ELSE IF kelly >= KellyCapPercent * avgWin
       THEN RoundDiv(accountBalance * KellyCapPercent,
                     cfg.stopLoss * PipsPerLotDivisor)
     ELSE RoundDiv(accountBalance * kelly,
                   avgWin * cfg.stopLoss * PipsPerLotDivisor)

CalculateStopLossTakeProfit(entryPrice, tradeType, stopLossPips, takeProfitPips) ==
  IF tradeType = "buy"
    THEN [stopLoss |-> entryPrice - stopLossPips,
          takeProfit |-> entryPrice + takeProfitPips]
    ELSE [stopLoss |-> entryPrice + stopLossPips,
          takeProfit |-> entryPrice - takeProfitPips]

CanPlaceTrade(currentPositions, size, dailyPnL, active) ==
  IF Abs(dailyPnL) * 100 >= cfg.accountBalance * cfg.dailyRiskLimit
    THEN [allowed |-> FALSE, reason |-> "Daily risk limit exceeded"]
  ELSE IF Len(currentPositions) >= cfg.maxConcurrentTrades
    THEN [allowed |-> FALSE, reason |-> "Maximum concurrent trades reached"]
  ELSE IF ~active
    THEN [allowed |-> FALSE, reason |-> "Trading is disabled"]
  ELSE IF size # 0 /\ size > cfg.positionSize * SizeCapFactor
    THEN [allowed |-> FALSE, reason |-> "Position size too large"]
  ELSE [allowed |-> TRUE, reason |-> "none"]

\* validateTrade asking for a reward of 1:1 only
ValidateTradeMutant(trade) ==
  LET bothStops == trade.stopLoss # 0 /\ trade.takeProfit # 0
                     /\ trade.openPrice # 0
      slDist == Abs(trade.openPrice - trade.stopLoss)
      tpDist == Abs(trade.takeProfit - trade.openPrice)
      errors ==
        (IF trade.pair # "EUR/USD"
           THEN {"Invalid or missing currency pair"} ELSE {})
        \cup (IF trade.type \notin {"buy", "sell"}
           THEN {"Invalid trade type"} ELSE {})
        \cup (IF trade.size <= 0 THEN {"Invalid position size"} ELSE {})
        \cup (IF trade.openPrice <= 0 THEN {"Invalid entry price"} ELSE {})
        \cup (IF bothStops /\ trade.type = "buy"
                 /\ trade.stopLoss >= trade.openPrice
           THEN {"Stop loss must be below entry price for buy orders"} ELSE {})
        \cup (IF bothStops /\ trade.type = "buy"
                 /\ trade.takeProfit <= trade.openPrice
           THEN {"Take profit must be above entry price for buy orders"} ELSE {})
        \cup (IF bothStops /\ trade.type = "sell"
                 /\ trade.stopLoss <= trade.openPrice
           THEN {"Stop loss must be above entry price for sell orders"} ELSE {})
        \cup (IF bothStops /\ trade.type = "sell"
                 /\ trade.takeProfit >= trade.openPrice
           THEN {"Take profit must be below entry price for sell orders"} ELSE {})
        \cup (IF bothStops /\ slDist > 0
                 /\ 10 * tpDist < 10 * slDist
           THEN {"Risk-reward ratio too low (minimum 1.5:1)"} ELSE {})
  IN [valid |-> errors = {}, errors |-> errors]

ValidateTrade(trade) ==
  LET bothStops == trade.stopLoss # 0 /\ trade.takeProfit # 0
                     /\ trade.openPrice # 0
      slDist == Abs(trade.openPrice - trade.stopLoss)
      tpDist == Abs(trade.takeProfit - trade.openPrice)
      errors ==
        (IF trade.pair # "EUR/USD"
           THEN {"Invalid or missing currency pair"} ELSE {})
        \cup (IF trade.type \notin {"buy", "sell"}
           THEN {"Invalid trade type"} ELSE {})
        \cup (IF trade.size <= 0 THEN {"Invalid position size"} ELSE {})
        \cup (IF trade.openPrice <= 0 THEN {"Invalid entry price"} ELSE {})
        \cup (IF bothStops /\ trade.type = "buy"
                 /\ trade.stopLoss >= trade.openPrice
           THEN {"Stop loss must be below entry price for buy orders"} ELSE {})
        \cup (IF bothStops /\ trade.type = "buy"
                 /\ trade.takeProfit <= trade.openPrice
           THEN {"Take profit must be above entry price for buy orders"} ELSE {})
        \cup (IF bothStops /\ trade.type = "sell"
                 /\ trade.stopLoss <= trade.openPrice
           THEN {"Stop loss must be above entry price for sell orders"} ELSE {})
        \cup (IF bothStops /\ trade.type = "sell"
                 /\ trade.takeProfit >= trade.openPrice
           THEN {"Take profit must be below entry price for sell orders"} ELSE {})
        \cup (IF bothStops /\ slDist > 0
                 /\ 10 * tpDist < MinRiskReward10 * slDist
           THEN {"Risk-reward ratio too low (minimum 1.5:1)"} ELSE {})
  IN [valid |-> errors = {}, errors |-> errors]

\* shouldCloseAllPositions with the daily boundary left out
ShouldCloseAllPositionsMutant(currentPositions, accountBalance, dailyPnL) ==
  IF dailyPnL * 100 < -(accountBalance * cfg.dailyRiskLimit)
    THEN [shouldClose |-> TRUE, reason |-> "Daily loss limit exceeded"]
  ELSE IF SumSeq(currentPositions) * 100
            <= -(DrawdownLiquidationPercent * accountBalance)
    THEN [shouldClose |-> TRUE, reason |-> "Maximum drawdown exceeded"]
  ELSE [shouldClose |-> FALSE, reason |-> "none"]

ShouldCloseAllPositions(currentPositions, accountBalance, dailyPnL) ==
  IF dailyPnL * 100 <= -(accountBalance * cfg.dailyRiskLimit)
    THEN [shouldClose |-> TRUE, reason |-> "Daily loss limit exceeded"]
  ELSE IF SumSeq(currentPositions) * 100
            <= -(DrawdownLiquidationPercent * accountBalance)
    THEN [shouldClose |-> TRUE, reason |-> "Maximum drawdown exceeded"]
  ELSE [shouldClose |-> FALSE, reason |-> "none"]

\* ------------------------------------------------------- market snapshot

\* updateMarketData keeping the oldest candles of a full window
UpdateMarketDataMutant(marketData, candle) ==
  LET pushed == Append(marketData, candle)
  IN IF Len(pushed) > SnapshotLimit
       THEN SubSeq(pushed, 1, SnapshotLimit)
       ELSE pushed

\* updateMarketData: marketData.push(candle), then slice(-500) of a window
\* that has grown past 500
UpdateMarketData(marketData, candle) ==
  LET pushed == Append(marketData, candle)
  IN IF Len(pushed) > SnapshotLimit
       THEN SubSeq(pushed, Len(pushed) - SnapshotLimit + 1, Len(pushed))
       ELSE pushed

\* ----------------------------------------------------------- signal fusion

\* combineSignals with the two weights exchanged where the signals agree
CombineSignalsSwappedWeights(technicalSignal, aiSignal) ==
  IF technicalSignal.signal = aiSignal.signal
    THEN [signal |-> technicalSignal.signal,
          confidence |-> technicalSignal.confidence * AiWeight
                           + aiSignal.confidence * TechWeight]
  ELSE IF technicalSignal.signal = "hold"
    THEN [signal |-> aiSignal.signal,
          confidence |-> aiSignal.confidence * AiWeight]
  ELSE IF aiSignal.signal = "hold"
    THEN [signal |-> technicalSignal.signal,
          confidence |-> technicalSignal.confidence * TechWeight]
  ELSE [signal |-> "hold", confidence |-> DisagreeConfidence]

\* combineSignals weighting a lone signal with the weight of the other side
CombineSignalsOpposingWeight(technicalSignal, aiSignal) ==
  IF technicalSignal.signal = aiSignal.signal
    THEN [signal |-> technicalSignal.signal,
          confidence |-> technicalSignal.confidence * TechWeight
                           + aiSignal.confidence * AiWeight]
  ELSE IF technicalSignal.signal = "hold"
    THEN [signal |-> aiSignal.signal,
          confidence |-> aiSignal.confidence * TechWeight]
  ELSE IF aiSignal.signal = "hold"
    THEN [signal |-> technicalSignal.signal,
          confidence |-> technicalSignal.confidence * AiWeight]
  ELSE [signal |-> "hold", confidence |-> DisagreeConfidence]

\* combineSignals answering two holds with the confidence of the predictor
CombineSignalsHoldAsPredictor(technicalSignal, aiSignal) ==
  IF technicalSignal.signal = aiSignal.signal
    THEN [signal |-> technicalSignal.signal,
          confidence |-> IF aiSignal.signal = "hold"
                          THEN aiSignal.confidence * (TechWeight + AiWeight)
                          ELSE technicalSignal.confidence * TechWeight
                               + aiSignal.confidence * AiWeight]
  ELSE IF technicalSignal.signal = "hold"
    THEN [signal |-> aiSignal.signal,
          confidence |-> aiSignal.confidence * AiWeight]
  ELSE IF aiSignal.signal = "hold"
    THEN [signal |-> technicalSignal.signal,
          confidence |-> technicalSignal.confidence * TechWeight]
  ELSE [signal |-> "hold", confidence |-> DisagreeConfidence]

\* combineSignals siding with the predictor where the signals disagree
CombineSignalsFollowsPredictor(technicalSignal, aiSignal) ==
  IF technicalSignal.signal = aiSignal.signal
    THEN [signal |-> technicalSignal.signal,
          confidence |-> technicalSignal.confidence * TechWeight
                           + aiSignal.confidence * AiWeight]
  ELSE IF technicalSignal.signal = "hold"
    THEN [signal |-> aiSignal.signal,
          confidence |-> aiSignal.confidence * AiWeight]
  ELSE IF aiSignal.signal = "hold"
    THEN [signal |-> technicalSignal.signal,
          confidence |-> technicalSignal.confidence * TechWeight]
  ELSE [signal |-> aiSignal.signal, confidence |-> DisagreeConfidence]

\* combineSignals: confidences in, 1/1000; confidence out, 1/10000
CombineSignals(technicalSignal, aiSignal) ==
  IF technicalSignal.signal = aiSignal.signal
    THEN [signal |-> technicalSignal.signal,
          confidence |-> technicalSignal.confidence * TechWeight
                           + aiSignal.confidence * AiWeight]
  ELSE IF technicalSignal.signal = "hold"
    THEN [signal |-> aiSignal.signal,
          confidence |-> aiSignal.confidence * AiWeight]
  ELSE IF aiSignal.signal = "hold"
    THEN [signal |-> technicalSignal.signal,
          confidence |-> technicalSignal.confidence * TechWeight]
  ELSE [signal |-> "hold", confidence |-> DisagreeConfidence]

\* the execution gate of generateTradingSignals
\* the gate of generateTradingSignals set at 0.5
PassesGateLow(combinedSignal) ==
  combinedSignal.signal # "hold" /\ combinedSignal.confidence > 5000

PassesGate(combinedSignal) ==
  combinedSignal.signal # "hold" /\ combinedSignal.confidence > ExecutionGate

\* ----------------------------------------------------- configuration rules

\* validateLiveConfig reporting the missing account id only with the key
ValidateLiveConfigMutant(config) ==
  LET errors ==
        (IF ~config.hasApiKey THEN {"OANDA API key is required"} ELSE {})
        \cup (IF ~config.hasApiKey /\ ~config.hasAccountId
           THEN {"OANDA account ID is required"} ELSE {})
        \cup (IF config.maxDailyLossPercent > 10
           THEN {"Maximum daily loss cannot exceed 10%"} ELSE {})
        \cup (IF config.riskPerTrade > 50
           THEN {"Risk per trade cannot exceed 5%"} ELSE {})
        \cup (IF config.maxPositionSize > 200
           THEN {"Maximum position size cannot exceed 2 lots"} ELSE {})
        \cup (IF config.confidenceThreshold < 600
           THEN {"AI confidence threshold must be at least 60%"} ELSE {})
        \cup (IF config.isLive /\ ~config.requireManualConfirmation
           THEN {"Manual confirmation is required for live trading"} ELSE {})
        \cup (IF config.isLive /\ config.maxDailyLossPercent > 5
           THEN {"Daily loss limit should not exceed 5% for live trading"}
           ELSE {})
        \cup (IF config.isLive /\ config.maxPositionSize > 100
           THEN {"Position size should not exceed 1 lot for live trading"}
           ELSE {})
  IN [valid |-> errors = {}, errors |-> errors]

ValidateLiveConfig(config) ==
  LET errors ==
        (IF ~config.hasApiKey THEN {"OANDA API key is required"} ELSE {})
        \cup (IF ~config.hasAccountId
           THEN {"OANDA account ID is required"} ELSE {})
        \cup (IF config.maxDailyLossPercent > 10
           THEN {"Maximum daily loss cannot exceed 10%"} ELSE {})
        \cup (IF config.riskPerTrade > 50
           THEN {"Risk per trade cannot exceed 5%"} ELSE {})
        \cup (IF config.maxPositionSize > 200
           THEN {"Maximum position size cannot exceed 2 lots"} ELSE {})
        \cup (IF config.confidenceThreshold < 600
           THEN {"AI confidence threshold must be at least 60%"} ELSE {})
        \cup (IF config.isLive /\ ~config.requireManualConfirmation
           THEN {"Manual confirmation is required for live trading"} ELSE {})
        \cup (IF config.isLive /\ config.maxDailyLossPercent > 5
           THEN {"Daily loss limit should not exceed 5% for live trading"}
           ELSE {})
        \cup (IF config.isLive /\ config.maxPositionSize > 100
           THEN {"Position size should not exceed 1 lot for live trading"}
           ELSE {})
  IN [valid |-> errors = {}, errors |-> errors]

IsWithinTradingHours(t) ==
  IF ~cfg.tradingHoursEnabled THEN TRUE ELSE t >= HoursStart /\ t <= HoursEnd


\* ------------------------------------------------------ TradingBot.stop

\* the effect of TradingBot.stop(): no await inside, so it is one segment
BotStop ==
  IF ~isRunning
    THEN UNCHANGED <<isRunning, isActive, tradingInterval, armedTimers>>
    ELSE /\ isRunning' = FALSE
         /\ isActive' = FALSE
         /\ IF tradingInterval
              THEN armedTimers' = armedTimers - 1 /\ tradingInterval' = FALSE
              ELSE UNCHANGED <<tradingInterval, armedTimers>>

\* --------------------------------------------------- LiveTradingManager

\* triggerEmergencyStop up to its first await: the flag, the history entry
\* and the body of bot.stop(); closeAllPositions follows in CloseAfterStop
\* triggerEmergencyStop that records the stop and leaves the bot running
TriggerEmergencyStopMutant(kind) ==
  /\ stopCalls < MaxStopCalls
  /\ Len(emergencyStopReasons) < MaxHistory
  /\ emergencyStopActive' = TRUE
  /\ emergencyStopReasons' = Append(emergencyStopReasons, kind)
  /\ UNCHANGED <<isRunning, isActive, tradingInterval, armedTimers>>
  /\ stopCalls' = stopCalls + 1

TriggerEmergencyStop(kind) ==
  /\ stopCalls < MaxStopCalls
  /\ Len(emergencyStopReasons) < MaxHistory
  /\ emergencyStopActive' = TRUE
  /\ emergencyStopReasons' = Append(emergencyStopReasons, kind)
  /\ BotStop
  /\ stopCalls' = stopCalls + 1

NoEmergencyStop ==
  UNCHANGED <<emergencyStopActive, emergencyStopReasons, isRunning, isActive,
              tradingInterval, armedTimers, stopCalls>>

\* handleTradeExecuted firing one loss late
HandleTradeExecutedMutant(trade) ==
  /\ IF trade.hasPnl /\ trade.pnl # 0 /\ trade.pnl < 0
       THEN /\ consecutiveLosses' = consecutiveLosses + 1
            /\ IF consecutiveLosses + 1 > cfg.maxConsecutiveLosses
                 THEN TriggerEmergencyStop("consecutive_losses")
                 ELSE NoEmergencyStop
       ELSE /\ consecutiveLosses' =
                 IF trade.hasPnl /\ trade.pnl # 0 /\ trade.pnl > 0
                   THEN 0 ELSE consecutiveLosses
            /\ NoEmergencyStop

\* handleTradeExecuted(trade): trade.pnl may be absent
HandleTradeExecuted(trade) ==
  /\ IF trade.hasPnl /\ trade.pnl # 0 /\ trade.pnl < 0
       THEN /\ consecutiveLosses' = consecutiveLosses + 1
            /\ IF consecutiveLosses + 1 >= cfg.maxConsecutiveLosses
                 THEN TriggerEmergencyStop("consecutive_losses")
                 ELSE NoEmergencyStop
       ELSE /\ consecutiveLosses' =
                 IF trade.hasPnl /\ trade.pnl # 0 /\ trade.pnl > 0
                   THEN 0 ELSE consecutiveLosses
            /\ NoEmergencyStop

\* handlePositionUpdate(positions) up to its await of the account balance
HandlePositionUpdate(newPositions) ==
  /\ Cardinality(pendingUpdates \cup {SumSeq(newPositions)}) <= MaxPending
  /\ pendingUpdates' = pendingUpdates \cup {SumSeq(newPositions)}

\* the daily-loss test handlePositionUpdate makes once it has the balance
DailyLossBreached(dailyPnL, accountBalance) ==
  Abs(dailyPnL) * 100 >= cfg.maxDailyLossPercent * accountBalance

\* handlePositionUpdate after the balance arrived (ok) or the request
\* failed: the rest of the handler for the update whose sum is dailyPnL
PositionUpdateResumed(dailyPnL, ok) ==
  /\ dailyPnL \in pendingUpdates
  /\ pendingUpdates' = pendingUpdates \ {dailyPnL}
  /\ IF ok /\ DailyLossBreached(dailyPnL, Balance)
       THEN TriggerEmergencyStop("daily_loss")
       ELSE NoEmergencyStop
  /\ UNCHANGED <<cfg, sideVars, now, accountVerified, isConnected,
                 consecutiveLosses, sessionStartTime, startCall, lastReturn,
                 apiReady, marketLen, currentPrice, indicators, positions,
                 rmVars, cyc, brokerOpen>>

ResumePositionUpdate ==
  \E dailyPnL \in pendingUpdates, ok \in BOOLEAN :
    PositionUpdateResumed(dailyPnL, ok)

\* TradingBot.closeAllPositions: every cached position is closed at the
\* broker, then the cache is emptied and the listeners are told; a failing
\* close request leaves the cache as it was.  closePosition closes the whole
\* instrument, so one request that succeeds leaves nothing open.
CloseAllPositions(ok) ==
  IF ~apiReady
    THEN UNCHANGED <<positions, brokerOpen, pendingUpdates>>
  ELSE IF positions = <<>>
    THEN /\ positions' = <<>>
         /\ UNCHANGED brokerOpen
         /\ HandlePositionUpdate(<<>>)
  ELSE IF ok
    THEN /\ positions' = <<>>
         /\ brokerOpen' = 0
         /\ HandlePositionUpdate(<<>>)
  ELSE /\ brokerOpen' \in {brokerOpen, 0}
       /\ UNCHANGED <<positions, pendingUpdates>>

\* triggerEmergencyStop after bot.stop(): closeAllPositions, then the
\* onEmergencyStop notification
CloseAfterStop ==
  /\ stopCalls > 0
  /\ stopCalls' = stopCalls - 1
  /\ \E ok \in BOOLEAN : CloseAllPositions(ok)
  /\ UNCHANGED <<cfg, sideVars, now, accountVerified, isConnected,
                 emergencyStopActive,
                 consecutiveLosses, sessionStartTime, emergencyStopReasons,
                 startCall, lastReturn, apiReady, isRunning, tradingInterval,
                 armedTimers, isActive, marketLen, currentPrice, indicators,
                 rmVars, cyc>>

ManualEmergencyStop ==
  /\ TriggerEmergencyStop("manual")
  /\ UNCHANGED <<cfg, sideVars, now, accountVerified, isConnected,
                 consecutiveLosses,
                 sessionStartTime, startCall, lastReturn, pendingUpdates,
                 apiReady, marketLen, currentPrice, indicators, positions,
                 rmVars, cyc, brokerOpen>>

\* clearEmergencyStop resetting the flag and keeping the history
ClearEmergencyStopKeepsHistory ==
  /\ IF /\ Len(emergencyStopReasons) > 0
        /\ Last(emergencyStopReasons) \in {"daily_loss", "drawdown"}
       THEN /\ lastReturn' = "false"
            /\ UNCHANGED <<emergencyStopActive, emergencyStopReasons>>
       ELSE /\ emergencyStopActive' = FALSE
            /\ UNCHANGED emergencyStopReasons
            /\ lastReturn' = "true"
  /\ UNCHANGED <<cfg, sideVars, now, accountVerified, isConnected,
                 consecutiveLosses,
                 sessionStartTime, startCall, stopCalls, pendingUpdates,
                 botVars,
                 cyc, brokerOpen>>

\* clearEmergencyStop refusing after a daily_loss stop only
ClearEmergencyStopMutant ==
  /\ IF /\ Len(emergencyStopReasons) > 0
        /\ Last(emergencyStopReasons) \in {"daily_loss"}
       THEN /\ lastReturn' = "false"
            /\ UNCHANGED <<emergencyStopActive, emergencyStopReasons>>
       ELSE /\ emergencyStopActive' = FALSE
            /\ emergencyStopReasons' = <<>>
            /\ lastReturn' = "true"
  /\ UNCHANGED <<cfg, sideVars, now, accountVerified, isConnected,
                 consecutiveLosses,
                 sessionStartTime, startCall, stopCalls, pendingUpdates,
                 botVars,
                 cyc, brokerOpen>>

ClearEmergencyStop ==
  /\ IF /\ Len(emergencyStopReasons) > 0
        /\ Last(emergencyStopReasons) \in {"daily_loss", "drawdown"}
       THEN /\ lastReturn' = "false"
            /\ UNCHANGED <<emergencyStopActive, emergencyStopReasons>>
       ELSE /\ emergencyStopActive' = FALSE
            /\ emergencyStopReasons' = <<>>
            /\ lastReturn' = "true"
  /\ UNCHANGED <<cfg, sideVars, now, accountVerified, isConnected,
                 consecutiveLosses,
                 sessionStartTime, startCall, stopCalls, pendingUpdates,
                 botVars,
                 cyc, brokerOpen>>

\* a stop() that also closes the open positions
ManagerStopMutant ==
  /\ BotStop
  /\ isConnected' = FALSE
  /\ CloseAllPositions(TRUE)
  /\ UNCHANGED <<cfg, sideVars, now, accountVerified, emergencyStopActive,
                 consecutiveLosses, sessionStartTime,
                 emergencyStopReasons,
                 startCall, lastReturn, stopCalls,
                 apiReady, marketLen, currentPrice, indicators,
                 rmVars, cyc>>

\* the effect of LiveTradingManager.stop(): bot.stop(), then the state
ManagerStopped ==
  /\ BotStop
  /\ isConnected' = FALSE
  /\ UNCHANGED <<cfg, now, accountVerified, emergencyStopActive,
                 consecutiveLosses, sessionStartTime,
                 emergencyStopReasons,
                 callVars, apiReady, marketLen, currentPrice, indicators,
                 positions, rmVars, cyc, brokerOpen>>

\* LiveTradingManager.stop()
ManagerStop ==
  /\ ManagerStopped
  /\ UNCHANGED sideVars

\* initializeLiveTrading initializing the bot before it validates
InitializeLiveTradingMutant ==
  /\ initCall = "idle"
  /\ ~accountVerified
  /\ LET validation == ValidateLiveConfig(cfg)
     IN IF ~validation.valid
          THEN /\ lastReturn' = "config_invalid"
               /\ probe' = [fn |-> "validateLiveConfig",
                            errors |-> validation.errors]
               /\ apiReady' = TRUE
               /\ UNCHANGED initCall
          ELSE /\ apiReady' = TRUE
               /\ initCall' = "verify"
               /\ UNCHANGED <<lastReturn, probe>>
  /\ UNCHANGED <<cfg, lowBalanceAlert, now, mgrVars, startCall, stopCalls,
                 pendingUpdates, isRunning, tradingInterval, armedTimers,
                 isActive, marketLen, currentPrice, indicators, positions,
                 rmVars, cyc, brokerOpen>>

\* initializeLiveTrading up to its await of verifyAccount's balance request:
\* config validation, then bot.initialize.  The host initializes until the
\* account is verified and not again afterwards.
InitializeLiveTrading ==
  /\ initCall = "idle"
  /\ ~accountVerified
  /\ LET validation == ValidateLiveConfig(cfg)
     IN IF ~validation.valid
          THEN /\ lastReturn' = "config_invalid"
               /\ probe' = [fn |-> "validateLiveConfig",
                            errors |-> validation.errors]
               /\ UNCHANGED <<apiReady, initCall>>
          ELSE /\ apiReady' = TRUE
               /\ initCall' = "verify"
               /\ UNCHANGED <<lastReturn, probe>>
  /\ UNCHANGED <<cfg, lowBalanceAlert, now, mgrVars, startCall, stopCalls,
                 pendingUpdates, isRunning, tradingInterval, armedTimers,
                 isActive, marketLen, currentPrice, indicators, positions,
                 rmVars, cyc, brokerOpen>>

\* verifyAccount refusing a low balance
InitVerifiedMutant(ok, balance) ==
  /\ initCall = "verify"
  /\ initCall' = "idle"
  /\ IF ok /\ ~(balance < LowBalance)
       THEN /\ lowBalanceAlert' =
                 (lowBalanceAlert \/ (cfg.isLive /\ balance < LowBalance))
            /\ accountVerified' = TRUE
            /\ isConnected' = TRUE
            /\ lastReturn' = "initialized"
       ELSE /\ lastReturn' = "verify_failed"
            /\ UNCHANGED <<lowBalanceAlert, accountVerified, isConnected>>
  /\ UNCHANGED <<cfg, probe, now, emergencyStopActive, consecutiveLosses,
                 sessionStartTime, emergencyStopReasons, startCall,
                 stopCalls, pendingUpdates, botVars, cyc, brokerOpen>>

\* verifyAccount answered by the broker with a balance, or not at all;
\* initializeLiveTrading returns
InitVerified(ok, balance) ==
  /\ initCall = "verify"
  /\ initCall' = "idle"
  /\ IF ok /\ ~(balance <= 0)
       THEN /\ lowBalanceAlert' =
                 (lowBalanceAlert \/ (cfg.isLive /\ balance < LowBalance))
            /\ accountVerified' = TRUE
            /\ isConnected' = TRUE
            /\ lastReturn' = "initialized"
       ELSE /\ lastReturn' = "verify_failed"
            /\ UNCHANGED <<lowBalanceAlert, accountVerified, isConnected>>
  /\ UNCHANGED <<cfg, probe, now, emergencyStopActive, consecutiveLosses,
                 sessionStartTime, emergencyStopReasons, startCall,
                 stopCalls, pendingUpdates, botVars, cyc, brokerOpen>>

\* ... of a funded account
InitVerifiedFunded ==
  \E ok \in BOOLEAN, balance \in {0, Balance} : InitVerified(ok, balance)

\* ... of any account
InitVerifiedAny ==
  \E ok \in BOOLEAN, balance \in InitBalances : InitVerified(ok, balance)


Tick ==
  /\ now < MaxTime
  /\ now' = now + 1
  /\ UNCHANGED <<cfg, sideVars, mgrVars, callVars, botVars, cyc, brokerOpen>>


\* ------------------------------------------------------ startLiveTrading

\* TradingBot.start() up to its await of testConnection; a throw is caught
\* by startLiveTrading, which returns a failure
BotStartBegin(confirmed) ==
  IF isRunning \/ ~apiReady
    THEN startCall' = IdleCall /\ lastReturn' = "failed"
    ELSE /\ startCall' = [pc |-> "connect", confirmed |-> confirmed]
         /\ UNCHANGED lastReturn

\* startLiveTrading without the trading-hours check
StartLiveTradingMutant ==
  /\ startCall.pc = "idle"
  /\ IF emergencyStopActive
       THEN lastReturn' = "emergency_stop" /\ UNCHANGED startCall
     ELSE IF ~accountVerified
       THEN lastReturn' = "not_verified" /\ UNCHANGED startCall
     ELSE IF FALSE
       THEN lastReturn' = "outside_hours" /\ UNCHANGED startCall
     ELSE IF cfg.isLive /\ cfg.requireManualConfirmation
       THEN /\ startCall' = [pc |-> "confirm", confirmed |-> FALSE]
            /\ UNCHANGED lastReturn
     ELSE BotStartBegin(FALSE)
  /\ UNCHANGED <<cfg, sideVars, now, mgrVars, stopCalls, pendingUpdates,
                 botVars, cyc, brokerOpen>>

\* startLiveTrading: the three synchronous checks, then either the await of
\* the final confirmation (Live) or the call of bot.start()
StartLiveTradingCalled ==
  /\ startCall.pc = "idle"
  /\ IF emergencyStopActive
       THEN lastReturn' = "emergency_stop" /\ UNCHANGED startCall
     ELSE IF ~accountVerified
       THEN lastReturn' = "not_verified" /\ UNCHANGED startCall
     ELSE IF ~IsWithinTradingHours(now)
       THEN lastReturn' = "outside_hours" /\ UNCHANGED startCall
     ELSE IF cfg.isLive /\ cfg.requireManualConfirmation
       THEN /\ startCall' = [pc |-> "confirm", confirmed |-> FALSE]
            /\ UNCHANGED lastReturn
     ELSE BotStartBegin(FALSE)
  /\ UNCHANGED <<cfg, now, mgrVars, stopCalls, pendingUpdates,
                 botVars, cyc, brokerOpen>>

StartLiveTrading ==
  /\ StartLiveTradingCalled
  /\ UNCHANGED sideVars

\* requestFinalConfirmation answered: false also when no callback is set
StartConfirmationAnswered ==
  /\ startCall.pc = "confirm"
  /\ \E confirmed \in BOOLEAN :
       IF ~confirmed
         THEN startCall' = IdleCall /\ lastReturn' = "cancelled"
         ELSE BotStartBegin(TRUE)
  /\ UNCHANGED <<cfg, now, mgrVars, stopCalls, pendingUpdates,
                 botVars, cyc, brokerOpen>>

StartConfirmed ==
  /\ StartConfirmationAnswered
  /\ UNCHANGED sideVars

\* testConnection answered; on success loadMarketData is awaited
StartConnected ==
  /\ startCall.pc = "connect"
  /\ \E connected \in BOOLEAN :
       IF connected
         THEN startCall' = [startCall EXCEPT !.pc = "load"]
                /\ UNCHANGED lastReturn
         ELSE startCall' = IdleCall /\ lastReturn' = "failed"
  /\ UNCHANGED <<cfg, sideVars, now, mgrVars, stopCalls, pendingUpdates,
                 botVars, cyc, brokerOpen>>

\* the history request answered (a failure is only logged): the bot is set
\* running, the interval timer is armed and startLiveTrading records the
\* session start
StartLoaded ==
  /\ startCall.pc = "load"
  /\ \/ marketLen' \in HistoryCounts
     \/ UNCHANGED marketLen
  /\ isRunning' = TRUE
  /\ isActive' = TRUE
  /\ tradingInterval' = TRUE
  /\ armedTimers' = armedTimers + 1
  /\ sessionStartTime' = now
  /\ startCall' = IdleCall
  /\ lastReturn' = "success"
  /\ UNCHANGED <<cfg, sideVars, now, accountVerified, isConnected,
                 emergencyStopActive,
                 consecutiveLosses, emergencyStopReasons, stopCalls,
                 pendingUpdates,
                 apiReady, currentPrice, indicators, positions, rmVars,
                 cyc, brokerOpen>>

StartSteps ==
  \/ StartLiveTrading
  \/ StartConfirmed
  \/ StartConnected
  \/ StartLoaded

\* ------------------------------------------------ manager driven by events

TradePnLs == {-25, 0, 40}

\* the bot reports an executed trade
TradeExecutedEvent ==
  /\ consecutiveLosses < MaxOutcomes
  /\ \E hasPnl \in BOOLEAN, pnl \in TradePnLs :
       HandleTradeExecuted([hasPnl |-> hasPnl, pnl |-> pnl])
  /\ UNCHANGED <<cfg, sideVars, now, accountVerified, isConnected,
                 sessionStartTime,
                 startCall, lastReturn,
                 pendingUpdates, apiReady, marketLen, currentPrice,
                 indicators, positions, rmVars, cyc, brokerOpen>>

\* aggregate PnL the bot can report: the losses above and a gain
ReportedPnLs == PositionPnLs \cup {600}

\* the bot reports its positions
PositionUpdateEvent ==
  /\ \E n \in 0..1, pnl \in ReportedPnLs :
       HandlePositionUpdate([i \in 1..n |-> pnl])
  /\ UNCHANGED <<cfg, sideVars, now, accountVerified, isConnected,
                 emergencyStopActive,
                 consecutiveLosses, sessionStartTime, emergencyStopReasons,
                 startCall, lastReturn, stopCalls, botVars, cyc, brokerOpen>>

\* handlePerformanceUpdate(performance)
HandlePerformanceUpdate(maxDrawdown) ==
  IF maxDrawdown >= cfg.maxDrawdownPercent
    THEN TriggerEmergencyStop("drawdown")
    ELSE NoEmergencyStop

\* the bot reports its performance
PerformanceUpdateEvent ==
  /\ \E maxDrawdown \in {0, 3, 5} :
       HandlePerformanceUpdate(maxDrawdown)
  /\ UNCHANGED <<cfg, sideVars, now, accountVerified, isConnected,
                 consecutiveLosses,
                 sessionStartTime, startCall, lastReturn, pendingUpdates,
                 apiReady, marketLen, currentPrice, indicators, positions,
                 rmVars, cyc, brokerOpen>>

\* the host calls the public triggerEmergencyStop with a reason of any kind
HostEmergencyStop ==
  /\ \E kind \in Kinds : TriggerEmergencyStop(kind)
  /\ UNCHANGED <<cfg, sideVars, now, accountVerified, isConnected,
                 consecutiveLosses,
                 sessionStartTime, startCall, lastReturn, pendingUpdates,
                 apiReady, marketLen, currentPrice, indicators, positions,
                 rmVars, cyc, brokerOpen>>

\* ------------------------------------------------------ the trading cycle


\* updatePerformanceMetrics and the return of executeTradingCycle: every
\* trade the bot holds is open and has no pnl, so the metrics are left alone
EndCycle(c) == cyc' = [cyc EXCEPT ![c] = IdleCycle]

\* the interval timer fires executeTradingCycle, which is not awaited; the
\* cycle runs to its first await (getCurrentPrice)
TimerFire ==
  /\ armedTimers > 0
  /\ \E c \in Cycles :
       /\ cyc[c].pc = "idle"
       /\ \A d \in Cycles : d < c => cyc[d].pc # "idle"
       /\ IF ~isRunning \/ ~apiReady
            THEN UNCHANGED cyc
            ELSE cyc' = [cyc EXCEPT ![c].pc = "market"]
  /\ UNCHANGED <<cfg, sideVars, now, mgrVars, callVars, botVars, brokerOpen>>

\* updateMarketData (price, then the latest candle; a failure skips the
\* rest of it), calculateTechnicalIndicators, and the call of
\* getOpenPositions; priceOk and gotCandle are the broker's two answers
MarketUpdated(c, priceOk, gotCandle) ==
  /\ cyc[c].pc = "market"
  /\ gotCandle => priceOk /\ marketLen >= FirstBar /\ marketLen < MaxBars
  /\ currentPrice' = IF priceOk THEN QuotedPrice ELSE currentPrice
  /\ marketLen' =
       IF ~gotCandle THEN marketLen
       ELSE IF marketLen + 1 > SnapshotLimit THEN SnapshotLimit
       ELSE marketLen + 1
  /\ indicators' =
       IF marketLen' < MinBarsForIndicators THEN indicators ELSE TRUE
  /\ cyc' = [cyc EXCEPT ![c].pc = "positions"]
  /\ UNCHANGED <<cfg, now, mgrVars, callVars, apiReady, isRunning,
                 tradingInterval, armedTimers, isActive, positions,
                 rmVars, brokerOpen>>

CycleMarket(c) ==
  /\ \E priceOk \in BOOLEAN, gotCandle \in BOOLEAN :
       MarketUpdated(c, priceOk, gotCandle)
  /\ UNCHANGED sideVars

\* the same step, keeping what the broker answered and how many candles the
\* snapshot held when the indicators were due
CycleMarketObserved(c) ==
  /\ \E priceOk \in BOOLEAN, gotCandle \in BOOLEAN :
       /\ MarketUpdated(c, priceOk, gotCandle)
       /\ probe' = [fn |-> "cycleMarket", cycle |-> c, priceOk |-> priceOk,
                    bars |-> marketLen']
  /\ UNCHANGED <<initCall, lowBalanceAlert>>

\* updatePositions: the answer of getOpenPositions replaces the cache and is
\* passed to onPositionUpdate (not awaited); a failure is only logged.  Then
\* performRiskChecks asks for the balance.
CyclePositions(c) ==
  /\ cyc[c].pc = "positions"
  /\ \/ \E pnl \in PositionPnLs :
          /\ positions' = [i \in 1..brokerOpen |-> pnl]
          /\ HandlePositionUpdate(positions')
          /\ cyc' = [cyc EXCEPT ![c].pc = "risk",
                                ![c].breached =
                                  DailyLossBreached(SumSeq(positions'),
                                                    Balance)]
     \/ /\ cyc' = [cyc EXCEPT ![c].pc = "risk"]
        /\ UNCHANGED <<positions, pendingUpdates>>
  /\ UNCHANGED <<cfg, sideVars, now, accountVerified, isConnected,
                 emergencyStopActive,
                 consecutiveLosses, sessionStartTime, emergencyStopReasons,
                 startCall, lastReturn,
                 stopCalls, apiReady, isRunning, tradingInterval,
                 armedTimers, isActive, marketLen, currentPrice, indicators,
                 rmVars, brokerOpen>>

\* generateTradingSignals up to its await of the predictor
SignalsBegin(c, rec) ==
  IF ~indicators \/ ~apiReady
    THEN EndCycle(c)
    ELSE cyc' = [cyc EXCEPT ![c] = [rec EXCEPT !.pc = "ai"]]

\* what performRiskChecks hands to onError
RiskCheckEvents(shouldClose) ==
  IF shouldClose.shouldClose
    THEN {<<"Risk management triggered", shouldClose.reason>>}
    ELSE {}

\* the answer of shouldCloseAllPositions, none when the balance request failed
RiskCheckAnswer(ok) ==
  IF ok
    THEN ShouldCloseAllPositions(positions, Balance, rmDailyPnL')
    ELSE [shouldClose |-> FALSE, reason |-> "none"]

\* performRiskChecks with the balance (or its failure); a liquidation goes
\* on in closeAllPositions, anything else in generateTradingSignals
RiskChecked(c, ok) ==
  /\ cyc[c].pc = "risk"
  /\ LET shouldClose == RiskCheckAnswer(ok).shouldClose
     IN /\ IF ok THEN ResetDailyCounters ELSE UNCHANGED rmVars
        /\ IF shouldClose /\ positions # <<>>
             THEN /\ cyc' = [cyc EXCEPT ![c].pc = "closing"]
                  /\ UNCHANGED <<positions, brokerOpen, pendingUpdates>>
           ELSE IF shouldClose
             THEN /\ CloseAllPositions(TRUE)
                  /\ SignalsBegin(c, cyc[c])
           ELSE /\ SignalsBegin(c, cyc[c])
                /\ UNCHANGED <<positions, brokerOpen, pendingUpdates>>
  /\ UNCHANGED <<cfg, now, accountVerified, isConnected,
                 emergencyStopActive,
                 consecutiveLosses, sessionStartTime, emergencyStopReasons,
                 startCall, lastReturn,
                 stopCalls, apiReady, isRunning, tradingInterval,
                 armedTimers, isActive, marketLen, currentPrice, indicators>>

CycleRisk(c) ==
  /\ \E ok \in BOOLEAN : RiskChecked(c, ok)
  /\ UNCHANGED sideVars

\* closeAllPositions of the risk check answered; the reason goes to
\* onError and the cycle goes on with generateTradingSignals
PositionsClosed(c, ok) ==
  /\ cyc[c].pc = "closing"
  /\ CloseAllPositions(ok)
  /\ SignalsBegin(c, cyc[c])
  /\ UNCHANGED <<cfg, now, accountVerified, isConnected,
                 emergencyStopActive,
                 consecutiveLosses, sessionStartTime, emergencyStopReasons,
                 startCall, lastReturn,
                 stopCalls, apiReady, isRunning, tradingInterval,
                 armedTimers, isActive, marketLen, currentPrice, indicators,
                 rmVars>>

CycleClosing(c) ==
  /\ \E ok \in BOOLEAN : PositionsClosed(c, ok)
  /\ UNCHANGED sideVars

\* the predictor answered: the signals are combined and a signal that
\* passes the gate starts executeTrade, which asks for the balance
CycleAI(c) ==
  /\ cyc[c].pc = "ai"
  /\ \E aiOk \in BOOLEAN, technicalSignal \in TechnicalSignals,
        aiSignal \in AISignals :
       LET combinedSignal == CombineSignals(technicalSignal, aiSignal)
       IN IF ~aiOk
            THEN EndCycle(c)
          ELSE IF PassesGate(combinedSignal)
            THEN cyc' = [cyc EXCEPT ![c].pc = "tradeBalance",
                                    ![c].fused = combinedSignal]
          ELSE EndCycle(c)
  /\ UNCHANGED <<cfg, sideVars, now, mgrVars, callVars, botVars, brokerOpen>>

ProposedTrade(signal, size) ==
  LET stops == CalculateStopLossTakeProfit(currentPrice, signal,
                                           cfg.stopLoss, cfg.takeProfit)
  IN [pair |-> "EUR/USD", type |-> signal, size |-> size,
      openPrice |-> currentPrice, stopLoss |-> stops.stopLoss,
      takeProfit |-> stops.takeProfit]

\* what executeTrade hands to onError: the failure it catches; a trade
\* that canPlaceTrade or validateTrade turns down is written to the console
ExecuteTradeEvents(ok) ==
  IF ok THEN {} ELSE {<<"Trade execution failed", "balance">>}

\* the trade executeTrade proposes and what canPlaceTrade and validateTrade
\* answer
TradeDecision(c) ==
  LET size == CalculatePositionSize(Balance, cfg.stopLoss, cfg.maxRisk)
      proposedTrade == ProposedTrade(cyc[c].fused.signal, size)
  IN [canTrade |-> CanPlaceTrade(positions, size, rmDailyPnL', isActive),
      validation |-> ValidateTrade(proposedTrade)]

\* executeTrade with the balance: sizing, stops, canPlaceTrade,
\* validateTrade and the order request
TradeBalanced(c, ok) ==
  /\ cyc[c].pc = "tradeBalance"
  /\ LET canTrade == TradeDecision(c).canTrade
         validation == TradeDecision(c).validation
     IN /\ IF ok THEN ResetDailyCounters ELSE UNCHANGED rmVars
        /\ IF ~ok \/ ~canTrade.allowed \/ ~validation.valid
             THEN EndCycle(c)
             ELSE cyc' = [cyc EXCEPT ![c].pc = "place",
                                     ![c].allowed = canTrade.allowed,
                                     ![c].valid = validation.valid,
                                     ![c].submitted = TRUE]
  /\ UNCHANGED <<cfg, now, mgrVars, callVars, apiReady, isRunning,
                 tradingInterval, armedTimers, isActive, marketLen,
                 currentPrice, indicators, positions, brokerOpen>>

CycleTradeBalance(c) ==
  /\ \E ok \in BOOLEAN : TradeBalanced(c, ok)
  /\ UNCHANGED sideVars

\* placeTrade answered: a filled order is reported to onTradeExecuted; the
\* trade that placeTrade builds carries no pnl
CyclePlace(c) ==
  /\ cyc[c].pc = "place"
  /\ \/ /\ brokerOpen < MaxBrokerPositions
        /\ brokerOpen' = brokerOpen + 1
        /\ HandleTradeExecuted([hasPnl |-> FALSE, pnl |-> 0])
     \/ /\ NoEmergencyStop
        /\ UNCHANGED <<brokerOpen, consecutiveLosses>>
  /\ EndCycle(c)
  /\ UNCHANGED <<cfg, sideVars, now, accountVerified, isConnected,
                 sessionStartTime,
                 startCall, lastReturn,
                 pendingUpdates, apiReady, marketLen, currentPrice,
                 indicators, positions, rmVars>>

CycleSteps ==
  \E c \in Cycles :
    \/ CycleMarket(c)
    \/ CyclePositions(c)
    \/ CycleRisk(c)
    \/ CycleClosing(c)
    \/ CycleAI(c)
    \/ CycleTradeBalance(c)
    \/ CyclePlace(c)

\* the timer firing while no cycle is in flight: every cycle finishes within
\* the 45 s period
TimerFireInTime ==
  /\ \A c \in Cycles : cyc[c].pc = "idle"
  /\ TimerFire

\* the manager, the bot and the broker together
Next ==
  \/ InitializeLiveTrading
  \/ InitVerifiedFunded
  \/ StartLiveTrading
  \/ StartConfirmed
  \/ StartConnected
  \/ StartLoaded
  \/ ManualEmergencyStop
  \/ ClearEmergencyStop
  \/ ManagerStop
  \/ ResumePositionUpdate
  \/ CloseAfterStop
  \/ TimerFireInTime
  \/ CycleSteps

\* the same with a slow broker: the timer fires whatever is in flight
NextOverlap ==
  \/ InitializeLiveTrading
  \/ InitVerifiedFunded
  \/ StartSteps
  \/ ManualEmergencyStop
  \/ ResumePositionUpdate
  \/ CloseAfterStop
  \/ TimerFire
  \/ CycleSteps

Spec == Init /\ [][Next]_vars

SpecOverlap == Init /\ [][NextOverlap]_vars

\* the safety state machine driven through its event handlers
NextSafety ==
  \/ TradeExecutedEvent
  \/ PositionUpdateEvent
  \/ PerformanceUpdateEvent
  \/ ResumePositionUpdate
  \/ ManualEmergencyStop
  \/ HostEmergencyStop
  \/ ClearEmergencyStop
  \/ CloseAfterStop

SpecSafety == Init /\ [][NextSafety]_vars

\* the lifecycle calls of the host against the clock
NextStart ==
  \/ InitializeLiveTrading
  \/ InitVerifiedFunded
  \/ StartSteps
  \/ ManualEmergencyStop
  \/ ClearEmergencyStop
  \/ ManagerStop
  \/ CloseAfterStop
  \/ Tick

SpecStart == Init /\ [][NextStart]_vars

\* performRiskChecks, executeTrade and the close of a liquidation, keeping
\* what each decided and what it handed to onError
CycleRiskObserved(c) ==
  /\ \E ok \in BOOLEAN :
       /\ RiskChecked(c, ok)
       /\ probe' = [fn |-> "performRiskChecks", cycle |-> c,
                    shouldClose |-> RiskCheckAnswer(ok).shouldClose,
                    reason |-> RiskCheckAnswer(ok).reason,
                    events |-> IF cyc'[c].pc = "closing" THEN {}
                               ELSE RiskCheckEvents(RiskCheckAnswer(ok))]
  /\ UNCHANGED <<initCall, lowBalanceAlert>>

\* the reason performRiskChecks holds while closeAllPositions is awaited
HeldReason(c) ==
  IF probe.fn = "performRiskChecks" /\ probe.cycle = c /\ probe.shouldClose
    THEN probe.reason
    ELSE "Risk limit breached"

CycleClosingObserved(c) ==
  /\ \E ok \in BOOLEAN :
       /\ PositionsClosed(c, ok)
       /\ probe' = [fn |-> "performRiskChecks", cycle |-> c,
                    shouldClose |-> TRUE,
                    reason |-> HeldReason(c),
                    events |-> RiskCheckEvents([shouldClose |-> TRUE,
                                                reason |-> HeldReason(c)])]
  /\ UNCHANGED <<initCall, lowBalanceAlert>>

CycleTradeBalanceObserved(c) ==
  /\ \E ok \in BOOLEAN :
       /\ TradeBalanced(c, ok)
       /\ probe' = [fn |-> "executeTrade", cycle |-> c, ok |-> ok,
                    canTrade |-> TradeDecision(c).canTrade,
                    events |-> ExecuteTradeEvents(ok)]
  /\ UNCHANGED <<initCall, lowBalanceAlert>>

CycleStepsAlerts ==
  \E c \in Cycles :
    \/ CycleMarket(c)
    \/ CyclePositions(c)
    \/ CycleRiskObserved(c)
    \/ CycleClosingObserved(c)
    \/ CycleAI(c)
    \/ CycleTradeBalanceObserved(c)
    \/ CyclePlace(c)

\* stop() followed for itself: what it found
ManagerStopObserved ==
  /\ ManagerStopped
  /\ probe' = [fn |-> "stop", wasRunning |-> isRunning]
  /\ UNCHANGED <<initCall, lowBalanceAlert>>

\* startLiveTrading after the stop that was followed, up to bot.start()
StartLiveTradingObserved ==
  /\ StartLiveTradingCalled
  /\ probe' = [fn |-> "start"]
  /\ UNCHANGED <<initCall, lowBalanceAlert>>

\* the confirmation answered after the stop that was followed; bot.start()
\* is called when it was given
StartConfirmedObserved ==
  /\ StartConfirmationAnswered
  /\ probe' = [fn |-> "start"]
  /\ UNCHANGED <<initCall, lowBalanceAlert>>

\* start, stop and the timer, the last stop followed until the next start
NextStop ==
  \/ InitializeLiveTrading
  \/ InitVerifiedFunded
  \/ StartLiveTradingObserved
  \/ StartConfirmedObserved
  \/ StartConnected
  \/ StartLoaded
  \/ ManagerStopObserved
  \/ ResumePositionUpdate
  \/ TimerFireInTime
  \/ CycleSteps

SpecStop == Init /\ [][NextStop]_vars

\* sessions of trading cycles, the decisions of the risk manager kept
NextAlerts ==
  \/ InitializeLiveTrading
  \/ InitVerifiedFunded
  \/ StartSteps
  \/ ManagerStop
  \/ ResumePositionUpdate
  \/ CloseAfterStop
  \/ TimerFireInTime
  \/ CycleStepsAlerts

SpecAlerts == Init /\ [][NextAlerts]_vars

CycleStepsObserved ==
  \E c \in Cycles :
    \/ CycleMarketObserved(c)
    \/ CyclePositions(c)
    \/ CycleRisk(c)
    \/ CycleClosing(c)
    \/ CycleAI(c)
    \/ CycleTradeBalance(c)
    \/ CyclePlace(c)

\* sessions of trading cycles, each cycle's market update kept
NextCycle ==
  \/ InitializeLiveTrading
  \/ InitVerifiedFunded
  \/ StartSteps
  \/ ManagerStop
  \/ ResumePositionUpdate
  \/ CloseAfterStop
  \/ TimerFireInTime
  \/ CycleStepsObserved

SpecCycle == Init /\ [][NextCycle]_vars


\* ------------------------------------------ RiskManager called directly

\* PnL of the positions handed to a direct call
ProbePnLs == {-1000, -500, -499, 0, 200}
\* sizes proposed to canPlaceTrade, in 1/100 lot (0: no size given)
ProbeSizes == {0, 100, 101}
\* realized PnL handed to updateDailyPnL
UpdatePnLs == {-250, 250}

\* canPlaceTrade(currentPositions, proposedTrade)
CanPlaceTradeCall ==
  /\ \E n \in 0..MaxProbePositions, size \in ProbeSizes :
       /\ ResetDailyCounters
       /\ probe' = [fn |-> "canPlaceTrade", n |-> n, size |-> size,
                    dailyPnL |-> rmDailyPnL', active |-> isActive,
                    out |-> CanPlaceTrade([i \in 1..n |-> 0], size,
                                          rmDailyPnL', isActive)]
  /\ UNCHANGED <<cfg, initCall, lowBalanceAlert, now, mgrVars, callVars,
                 apiReady, isRunning, tradingInterval, armedTimers, isActive,
                 marketLen, currentPrice, indicators, positions, cyc,
                 brokerOpen>>

\* shouldCloseAllPositions(currentPositions, accountBalance)
ShouldCloseAllPositionsCall ==
  /\ \E n \in 0..MaxProbePositions, pnl \in ProbePnLs :
       /\ ResetDailyCounters
       /\ probe' = [fn |-> "shouldCloseAllPositions",
                    total |-> n * pnl, balance |-> Balance,
                    dailyPnL |-> rmDailyPnL',
                    out |-> ShouldCloseAllPositions([i \in 1..n |-> pnl],
                                                    Balance, rmDailyPnL')]
  /\ UNCHANGED <<cfg, initCall, lowBalanceAlert, now, mgrVars, callVars,
                 apiReady, isRunning, tradingInterval, armedTimers, isActive,
                 marketLen, currentPrice, indicators, positions, cyc,
                 brokerOpen>>

\* updateDailyPnL(pnl)
UpdateDailyPnL(pnl) ==
  /\ rmDailyPnL' = (IF lastResetDate # DateOf(now) THEN 0 ELSE rmDailyPnL)
                     + pnl
  /\ dailyTrades' = (IF lastResetDate # DateOf(now) THEN 0 ELSE dailyTrades)
  /\ lastResetDate' = DateOf(now)

UpdateDailyPnLCall ==
  /\ \E pnl \in UpdatePnLs :
       /\ UpdateDailyPnL(pnl)
       /\ Abs(rmDailyPnL') <= MaxAbsDailyPnL
       /\ probe' = [fn |-> "updateDailyPnL", pnl |-> pnl]
  /\ UNCHANGED <<cfg, initCall, lowBalanceAlert, now, mgrVars, callVars,
                 apiReady, isRunning, tradingInterval, armedTimers, isActive,
                 marketLen, currentPrice, indicators, positions, cyc,
                 brokerOpen>>

\* updateConfig(config) with trading switched on or off
UpdateConfig ==
  /\ isActive' \in BOOLEAN
  /\ UNCHANGED <<cfg, sideVars, now, mgrVars, callVars, apiReady, isRunning,
                 tradingInterval, armedTimers, marketLen, currentPrice,
                 indicators, positions, rmVars, cyc, brokerOpen>>

NextRisk ==
  \/ CanPlaceTradeCall
  \/ ShouldCloseAllPositionsCall
  \/ UpdateDailyPnLCall
  \/ UpdateConfig
  \/ Tick

SpecRisk == Init /\ [][NextRisk]_vars

\* trades handed to validateTrade ("" and 0: the field is missing)
ProbeTrades ==
  [ pair : {"EUR/USD", "GBP/USD", ""},
    type : {"buy", "sell", "hold"},
    size : {-10, 0, 50},
    openPrice : {0, QuotedPrice},
    stopLoss : {0, QuotedPrice - 50, QuotedPrice, QuotedPrice + 50},
    takeProfit : {0, QuotedPrice - 75, QuotedPrice - 60, QuotedPrice,
                  QuotedPrice + 60, QuotedPrice + 75} ]

\* validateTrade(trade)
ValidateTradeCall ==
  /\ \E trade \in ProbeTrades :
       probe' = [fn |-> "validateTrade", trade |-> trade,
                 out |-> ValidateTrade(trade)]
  /\ UNCHANGED <<cfg, initCall, lowBalanceAlert, now, mgrVars, callVars,
                 botVars, cyc, brokerOpen>>

NextValidate ==
  \/ ValidateTradeCall

SpecValidate == Init /\ [][NextValidate]_vars

\* ------------------------------------------------------- initialization

\* configurations a host can hand to the manager
CandidateConfigs ==
  { [ DemoConfig EXCEPT !.isLive = live, !.hasApiKey = key,
                        !.hasAccountId = account,
                        !.maxDailyLossPercent = loss,
                        !.riskPerTrade = risk, !.maxPositionSize = size,
                        !.confidenceThreshold = threshold,
                        !.requireManualConfirmation = confirm ] :
      live \in BOOLEAN, key \in BOOLEAN, account \in BOOLEAN,
      loss \in {5, 6, 10, 11}, risk \in {50, 51},
      size \in {100, 101, 200, 201}, threshold \in {599, 600},
      confirm \in BOOLEAN }

InitAnyConfig ==
  /\ cfg \in CandidateConfigs
  /\ now = 0
  /\ accountVerified = FALSE
  /\ isConnected = FALSE
  /\ emergencyStopActive = FALSE
  /\ consecutiveLosses = 0
  /\ sessionStartTime = 0
  /\ emergencyStopReasons = <<>>
  /\ startCall = IdleCall
  /\ lastReturn = "none"
  /\ stopCalls = 0
  /\ pendingUpdates = {}
  /\ apiReady = FALSE
  /\ isRunning = FALSE
  /\ tradingInterval = FALSE
  /\ armedTimers = 0
  /\ isActive = FALSE
  /\ marketLen = 0
  /\ currentPrice = 0
  /\ indicators = FALSE
  /\ positions = <<>>
  /\ rmDailyPnL = 0
  /\ dailyTrades = 0
  /\ lastResetDate = 0
  /\ initCall = "idle"
  /\ lowBalanceAlert = FALSE
  /\ probe = NoProbe
  /\ cyc = [c \in Cycles |-> IdleCycle]
  /\ brokerOpen = 0

NextInit ==
  \/ InitializeLiveTrading
  \/ InitVerifiedAny
  \/ StartSteps

SpecInit == InitAnyConfig /\ [][NextInit]_vars

\* ------------------------------------------ combineSignals called directly

\* signals the technical analysis and the predictor can hand over
SignalActions == {"buy", "sell", "hold"}
SignalConfidences == {0, 300, 600, 800, 1000}
FusionInputs == [signal : SignalActions, confidence : SignalConfidences]

\* combineSignals(technicalSignal, aiSignal)
CombineSignalsCall ==
  /\ \E technicalSignal \in FusionInputs, aiSignal \in FusionInputs :
       probe' = [fn |-> "combineSignals", technical |-> technicalSignal,
                 ai |-> aiSignal,
                 out |-> CombineSignals(technicalSignal, aiSignal)]
  /\ UNCHANGED <<cfg, initCall, lowBalanceAlert, now, mgrVars, callVars,
                 botVars, cyc, brokerOpen>>

NextFusion == CombineSignalsCall

SpecFusion == Init /\ [][NextFusion]_vars

\* ------------------------------------------- position sizing called directly

\* arguments the sizing functions are called with
SizingBalances == {500, Balance}
StopDistances == {-50, 0, 25, 50}
RiskPercents == {1, 2}
WinRates == {0, 40, 60, 100}
AvgWins == {0, 50, 100}
AvgLosses == {0, 50, 100}

\* calculatePositionSize(accountBalance, stopLossDistance, riskPercentage)
CalculatePositionSizeCall ==
  /\ \E accountBalance \in SizingBalances, stopLossDistance \in StopDistances,
        riskPercentage \in RiskPercents :
       probe' = [fn |-> "calculatePositionSize",
                 accountBalance |-> accountBalance,
                 stopLossDistance |-> stopLossDistance,
                 riskPercentage |-> riskPercentage,
                 out |-> CalculatePositionSize(accountBalance,
                                               stopLossDistance,
                                               riskPercentage)]
  /\ UNCHANGED <<cfg, initCall, lowBalanceAlert, now, mgrVars, callVars,
                 botVars, cyc, brokerOpen>>

\* calculateKellyPositionSize(accountBalance, winRate, avgWin, avgLoss)
CalculateKellyPositionSizeCall ==
  /\ \E accountBalance \in SizingBalances, winRate \in WinRates,
        avgWin \in AvgWins, avgLoss \in AvgLosses :
       probe' = [fn |-> "calculateKellyPositionSize",
                 accountBalance |-> accountBalance, winRate |-> winRate,
                 avgWin |-> avgWin, avgLoss |-> avgLoss,
                 out |-> CalculateKellyPositionSize(accountBalance, winRate,
                                                    avgWin, avgLoss)]
  /\ UNCHANGED <<cfg, initCall, lowBalanceAlert, now, mgrVars, callVars,
                 botVars, cyc, brokerOpen>>

NextSizing ==
  \/ CalculatePositionSizeCall
  \/ CalculateKellyPositionSizeCall

SpecSizing == Init /\ [][NextSizing]_vars

\* ------------------------------------- the snapshot followed candle by candle

\* candles the initial history request returns (200 are asked for); a candle
\* is named by its place in the broker's series
HistoryLoads == {0, 200}

\* loadMarketData: the history replaces the snapshot
LoadMarketDataCall ==
  /\ \E n \in HistoryLoads :
       probe' = [fn |-> "loadMarketData", marketData |-> [i \in 1..n |-> i]]
  /\ UNCHANGED <<cfg, initCall, lowBalanceAlert, now, mgrVars, callVars,
                 botVars, cyc, brokerOpen>>

\* updateMarketData with the next candle of the series
UpdateMarketDataCall ==
  /\ probe.fn \in {"loadMarketData", "updateMarketData"}
  /\ LET candle == IF probe.marketData = <<>> THEN 1
                   ELSE Last(probe.marketData) + 1
     IN /\ candle <= MaxCandles
        /\ probe' = [fn |-> "updateMarketData", before |-> probe.marketData,
                     candle |-> candle,
                     marketData |-> UpdateMarketData(probe.marketData,
                                                     candle)]
  /\ UNCHANGED <<cfg, initCall, lowBalanceAlert, now, mgrVars, callVars,
                 botVars, cyc, brokerOpen>>

NextWindow ==
  \/ LoadMarketDataCall
  \/ UpdateMarketDataCall

SpecWindow == Init /\ [][NextWindow]_vars

\* ------------------------------------------------------------- properties

Unrecoverable == {"daily_loss", "drawdown"}
Clearable == {"manual", "consecutive_losses", "connection_lost",
              "account_error"}

\* C1: while emergencyStopActive is set the bot is stopped: isRunning is
\* false and no interval timer is armed.
C1_EmergencyStopHaltsBot ==
  emergencyStopActive => ~isRunning /\ ~tradingInterval /\ armedTimers = 0

\* C2: clearEmergencyStop returns false and changes nothing when the last
\* history entry is daily_loss or drawdown; when it is manual,
\* consecutive_losses, connection_lost or account_error it returns true,
\* clears the flag and empties the history.
C2_ClearRule ==
  [][ClearEmergencyStop =>
       /\ (emergencyStopReasons # <<>>
             /\ Last(emergencyStopReasons) \in Unrecoverable)
            => /\ lastReturn' = "false"
               /\ UNCHANGED <<emergencyStopActive, emergencyStopReasons>>
       /\ (emergencyStopReasons # <<>>
             /\ Last(emergencyStopReasons) \in Clearable)
            => /\ lastReturn' = "true"
               /\ emergencyStopActive' = FALSE
               /\ emergencyStopReasons' = <<>>]_vars

\* a clear was refused after a drawdown stop that followed another stop
C2_Witness ==
  /\ lastReturn = "false"
  /\ emergencyStopActive
  /\ Len(emergencyStopReasons) = 2
  /\ Last(emergencyStopReasons) = "drawdown"

\* C3: once a daily_loss or drawdown stop is in the history the flag stays
\* set, whatever is called next.
C3_UnrecoverableStays ==
  [][(\E i \in DOMAIN emergencyStopReasons :
        emergencyStopReasons[i] \in Unrecoverable)
       => emergencyStopActive']_vars

\* the consecutive_losses stop was appended by this step
LossStopFired ==
  /\ emergencyStopReasons' = Append(emergencyStopReasons, "consecutive_losses")
  /\ emergencyStopActive'

\* C4: a losing trade outcome counts one more loss and fires the
\* consecutive_losses stop exactly when the count reaches
\* maxConsecutiveLosses (not one loss earlier, not one loss later); a trade
\* outcome with pnl > 0 sets the count to 0.
C4_ConsecutiveLosses ==
  [][\A pnl \in TradePnLs :
       HandleTradeExecuted([hasPnl |-> TRUE, pnl |-> pnl]) =>
         /\ pnl < 0 =>
              /\ consecutiveLosses' = consecutiveLosses + 1
              /\ LossStopFired <=>
                   consecutiveLosses + 1 >= cfg.maxConsecutiveLosses
              /\ consecutiveLosses + 1 = cfg.maxConsecutiveLosses
                   => LossStopFired
              /\ consecutiveLosses + 1 < cfg.maxConsecutiveLosses
                   => UNCHANGED <<emergencyStopActive, emergencyStopReasons>>
         /\ pnl > 0 => consecutiveLosses' = 0]_vars

\* the stop fired on the Nth loss in a row
C4_Witness ==
  /\ consecutiveLosses = cfg.maxConsecutiveLosses
  /\ emergencyStopActive
  /\ emergencyStopReasons = <<"consecutive_losses">>

\* C5: a cycle that liquidates ends there: it does not go on to the
\* predictor, the sizing or the order.
C5_LiquidationAbortsCycle ==
  [][\A c \in Cycles :
       cyc[c].pc = "closing" => cyc'[c].pc \in {"closing", "idle"}]_vars

\* C6: at most one trading cycle is in flight.
C6_SingleFlight ==
  Cardinality({c \in Cycles : cyc[c].pc # "idle"}) <= 1

\* C7: a cycle whose position update breached the daily-loss limit submits
\* no order.
C7_BreachBlocksOrder ==
  \A c \in Cycles : cyc[c].breached => ~cyc[c].submitted

\* why startLiveTrading refuses in the current state, if it does
StartDenialCause ==
  IF emergencyStopActive THEN "emergency_stop"
  ELSE IF ~accountVerified THEN "not_verified"
  ELSE IF cfg.tradingHoursEnabled /\ (now < HoursStart \/ now > HoursEnd)
    THEN "outside_hours"
  ELSE "none"

StartReturns ==
  {"emergency_stop", "not_verified", "outside_hours", "cancelled", "failed",
   "success"}

C9_OrderGate ==
  \A c \in Cycles :
    cyc[c].submitted =>
      /\ cyc[c].fused.signal \in {"buy", "sell"}
      /\ cyc[c].fused.confidence > cfg.aiConfidence * 10
      /\ cyc[c].allowed
      /\ cyc[c].valid

\* C10: the broker never holds more open positions than maxConcurrentTrades.
C10_PositionLimit ==
  brokerOpen <= cfg.maxConcurrentTrades

\* the day's loss has reached the daily limit of the configuration
DailyLossLimitBreached(dailyPnL) ==
  dailyPnL * 100 <= -(cfg.accountBalance * cfg.dailyRiskLimit)

\* C11: canPlaceTrade denies with the reason of the first failing check, in
\* the order daily-loss limit breached, open positions >= maxConcurrentTrades,
\* bot inactive, size > 2x the default size, and allows when none fails.
C11_CanPlaceTradeOrder ==
  probe.fn = "canPlaceTrade" =>
    probe.out =
      IF DailyLossLimitBreached(probe.dailyPnL)
        THEN [allowed |-> FALSE, reason |-> "Daily risk limit exceeded"]
      ELSE IF probe.n >= cfg.maxConcurrentTrades
        THEN [allowed |-> FALSE,
              reason |-> "Maximum concurrent trades reached"]
      ELSE IF ~probe.active
        THEN [allowed |-> FALSE, reason |-> "Trading is disabled"]
      ELSE IF probe.size > 2 * cfg.positionSize
        THEN [allowed |-> FALSE, reason |-> "Position size too large"]
      ELSE [allowed |-> TRUE, reason |-> "none"]

\* C12: on a day whose PnL is not a loss canPlaceTrade never denies with the
\* daily-limit reason.
C12_DailyLimitIsLossLimit ==
  (probe.fn = "canPlaceTrade" /\ probe.dailyPnL >= 0)
    => probe.out.reason # "Daily risk limit exceeded"

\* the rules of validateTrade that a trade violates, by their messages
ViolatedTradeRules(t) ==
  LET stops == t.stopLoss # 0 /\ t.takeProfit # 0 /\ t.openPrice # 0
  IN { m \in { "Invalid or missing currency pair", "Invalid trade type",
               "Invalid position size", "Invalid entry price",
               "Stop loss must be below entry price for buy orders",
               "Take profit must be above entry price for buy orders",
               "Stop loss must be above entry price for sell orders",
               "Take profit must be below entry price for sell orders",
               "Risk-reward ratio too low (minimum 1.5:1)" } :
       \/ m = "Invalid or missing currency pair" /\ t.pair # "EUR/USD"
       \/ m = "Invalid trade type" /\ t.type \notin {"buy", "sell"}
       \/ m = "Invalid position size" /\ ~(t.size > 0)
       \/ m = "Invalid entry price" /\ ~(t.openPrice > 0)
       \/ /\ m = "Stop loss must be below entry price for buy orders"
          /\ stops /\ t.type = "buy" /\ ~(t.stopLoss < t.openPrice)
       \/ /\ m = "Take profit must be above entry price for buy orders"
          /\ stops /\ t.type = "buy" /\ ~(t.takeProfit > t.openPrice)
       \/ /\ m = "Stop loss must be above entry price for sell orders"
          /\ stops /\ t.type = "sell" /\ ~(t.stopLoss > t.openPrice)
       \/ /\ m = "Take profit must be below entry price for sell orders"
          /\ stops /\ t.type = "sell" /\ ~(t.takeProfit < t.openPrice)
       \/ /\ m = "Risk-reward ratio too low (minimum 1.5:1)"
          /\ stops
          /\ 2 * Abs(t.takeProfit - t.openPrice)
               < 3 * Abs(t.openPrice - t.stopLoss) }

C14_ShouldCloseAllPositions ==
  probe.fn = "shouldCloseAllPositions" =>
    LET daily == probe.dailyPnL * 100
                   <= -(probe.balance * cfg.dailyRiskLimit)
        drawdown == probe.total * 100 <= -(10 * probe.balance)
    IN /\ probe.out.shouldClose <=> (daily \/ drawdown)
       /\ probe.out.reason = "Daily loss limit exceeded" => daily
       /\ probe.out.reason = "Maximum drawdown exceeded" => drawdown
       /\ probe.out.reason = "none" <=> ~probe.out.shouldClose

\* liquidation was asked for at dailyPnL = -(balance * limit / 100) exactly
C14_Witness ==
  /\ probe.fn = "shouldCloseAllPositions"
  /\ probe.dailyPnL * 100 = -(probe.balance * cfg.dailyRiskLimit)
  /\ probe.total = 0
  /\ probe.out = [shouldClose |-> TRUE, reason |-> "Daily loss limit exceeded"]

\* C15: a RiskManager operation resets dailyPnL and dailyTrades to zero
\* exactly when the calendar date differs from lastResetDate; updateDailyPnL
\* resets before it adds; the passing of time alone resets nothing, and
\* without a change of date the counters are never reset.
C15_DailyReset ==
  [][/\ (CanPlaceTradeCall \/ ShouldCloseAllPositionsCall) =>
          IF lastResetDate # DateOf(now)
            THEN /\ rmDailyPnL' = 0
                 /\ dailyTrades' = 0
                 /\ lastResetDate' = DateOf(now)
            ELSE UNCHANGED <<rmDailyPnL, dailyTrades, lastResetDate>>
     /\ \A pnl \in UpdatePnLs :
          (UpdateDailyPnL(pnl) /\ probe' = [fn |-> "updateDailyPnL",
                                            pnl |-> pnl]) =>
            IF lastResetDate # DateOf(now)
              THEN /\ rmDailyPnL' = pnl
                   /\ dailyTrades' = 0
                   /\ lastResetDate' = DateOf(now)
              ELSE /\ rmDailyPnL' = rmDailyPnL + pnl
                   /\ UNCHANGED <<dailyTrades, lastResetDate>>
     /\ now' # now => UNCHANGED <<rmDailyPnL, dailyTrades, lastResetDate>>
     /\ lastResetDate = DateOf(now) =>
          /\ dailyTrades' = dailyTrades
          /\ \/ rmDailyPnL' = rmDailyPnL
             \/ \E pnl \in UpdatePnLs : rmDailyPnL' = rmDailyPnL + pnl]_vars

\* an outcome was recorded on a new day: the day starts from that outcome
C15_Witness ==
  /\ probe.fn = "updateDailyPnL"
  /\ lastResetDate = DateOf(now)
  /\ lastResetDate # 0
  /\ rmDailyPnL = probe.pnl

\* C16: a cycle that closes its positions adds the PnL they realize to the
\* RiskManager's dailyPnL.
C16_DailyPnLTracksOutcomes ==
  [][\A c \in Cycles :
       (cyc[c].pc = "closing" /\ positions # <<>> /\ positions' = <<>>)
         => rmDailyPnL' = rmDailyPnL + SumSeq(positions)]_vars

\* the rules of validateLiveConfig that a configuration violates, by their
\* messages
ViolatedConfigRules(config) ==
  { m \in { "OANDA API key is required", "OANDA account ID is required",
            "Maximum daily loss cannot exceed 10%",
            "Risk per trade cannot exceed 5%",
            "Maximum position size cannot exceed 2 lots",
            "AI confidence threshold must be at least 60%",
            "Manual confirmation is required for live trading",
            "Daily loss limit should not exceed 5% for live trading",
            "Position size should not exceed 1 lot for live trading" } :
      \/ m = "OANDA API key is required" /\ ~config.hasApiKey
      \/ m = "OANDA account ID is required" /\ ~config.hasAccountId
      \/ /\ m = "Maximum daily loss cannot exceed 10%"
         /\ ~(config.maxDailyLossPercent <= 10)
      \/ /\ m = "Risk per trade cannot exceed 5%"
         /\ ~(config.riskPerTrade <= 50)
      \/ /\ m = "Maximum position size cannot exceed 2 lots"
         /\ ~(config.maxPositionSize <= 200)
      \/ /\ m = "AI confidence threshold must be at least 60%"
         /\ ~(config.confidenceThreshold >= 600)
      \/ /\ m = "Manual confirmation is required for live trading"
         /\ config.isLive /\ ~config.requireManualConfirmation
      \/ /\ m = "Daily loss limit should not exceed 5% for live trading"
         /\ config.isLive /\ ~(config.maxDailyLossPercent <= 5)
      \/ /\ m = "Position size should not exceed 1 lot for live trading"
         /\ config.isLive /\ ~(config.maxPositionSize <= 100) }

\* C17: initializeLiveTrading fails on the configuration exactly when the
\* configuration violates at least one rule, and then reports every violated
\* rule.
C17_ConfigValidationExhaustive ==
  [][InitializeLiveTrading =>
       IF ViolatedConfigRules(cfg) = {}
         THEN lastReturn' # "config_invalid" /\ initCall' = "verify"
         ELSE /\ lastReturn' = "config_invalid"
              /\ probe' = [fn |-> "validateLiveConfig",
                           errors |-> ViolatedConfigRules(cfg)]]_vars

\* an initialization failed reporting several violated rules at once
C17_Witness ==
  /\ lastReturn = "config_invalid"
  /\ probe.fn = "validateLiveConfig"
  /\ Cardinality(probe.errors) > 1

\* C18: with a configuration that fails validation the bot is never
\* initialized, no balance request is ever in flight and accountVerified and
\* isConnected stay false.
C18_ConfigErrorIsFatal ==
  ViolatedConfigRules(cfg) # {} =>
    /\ ~apiReady
    /\ initCall = "idle"
    /\ ~accountVerified
    /\ ~isConnected
    /\ lastReturn \in {"none", "config_invalid", "not_verified"}

\* initializeLiveTrading returned the configuration failure
C18_Witness ==
  /\ lastReturn = "config_invalid"
  /\ ~apiReady
  /\ initCall = "idle"
  /\ ~accountVerified
  /\ ~isConnected

C21_DailyLossStop ==
  [][\A dailyPnL \in ReportedPnLs :
       PositionUpdateResumed(dailyPnL, TRUE) =>
         ((/\ Len(emergencyStopReasons') = Len(emergencyStopReasons) + 1
           /\ Last(emergencyStopReasons') = "daily_loss")
          <=> (dailyPnL * 100 <= -(cfg.maxDailyLossPercent * Balance)))]_vars

\* the last call was combineSignals
Fused == probe.fn = "combineSignals"

\* C22: when the technical signal and the predictor's signal name the same
\* action and it is not hold, the fused action is that action and the fused
\* confidence is 0.4 * technical.confidence + 0.6 * predictor.confidence.
C22_FusionAgreement ==
  (Fused /\ probe.technical.signal = probe.ai.signal
         /\ probe.technical.signal # "hold")
    => /\ probe.out.signal = probe.technical.signal
       /\ probe.out.confidence =
            4 * probe.technical.confidence + 6 * probe.ai.confidence

\* {buy, 0.8} and {buy, 0.6} were fused to {buy, 0.68}
C22_Witness ==
  /\ Fused
  /\ probe.technical = [signal |-> "buy", confidence |-> 800]
  /\ probe.ai = [signal |-> "buy", confidence |-> 600]
  /\ probe.out = [signal |-> "buy", confidence |-> 6800]

\* C23: when exactly one of the two signals is hold, the fused action is the
\* action of the other signal and the fused confidence is that signal's
\* confidence times its own weight: 0.4 for the technical signal, 0.6 for
\* the predictor's.
C23_FusionOneHold ==
  /\ (Fused /\ probe.technical.signal = "hold"
            /\ probe.ai.signal # "hold")
       => /\ probe.out.signal = probe.ai.signal
          /\ probe.out.confidence = 6 * probe.ai.confidence
  /\ (Fused /\ probe.ai.signal = "hold"
            /\ probe.technical.signal # "hold")
       => /\ probe.out.signal = probe.technical.signal
          /\ probe.out.confidence = 4 * probe.technical.confidence

\* a technical hold and the predictor's {sell, 0.8} were fused to
\* {sell, 0.48}
C23_Witness ==
  /\ Fused
  /\ probe.technical.signal = "hold"
  /\ probe.technical.confidence = 1000
  /\ probe.ai = [signal |-> "sell", confidence |-> 800]
  /\ probe.out = [signal |-> "sell", confidence |-> 4800]

\* C24: when both signals are hold, the fused action is hold and the fused
\* confidence equals the predictor's confidence.
C24_FusionBothHold ==
  (Fused /\ probe.technical.signal = "hold" /\ probe.ai.signal = "hold")
    => /\ probe.out.signal = "hold"
       /\ probe.out.confidence = 10 * probe.ai.confidence

\* C24 as amended: when both signals are hold, the fused action is hold and
\* the fused confidence is the weighted sum of the agreement case,
\* 0.4 * technical.confidence + 0.6 * predictor.confidence.
C24_FusionBothHoldBlend ==
  (Fused /\ probe.technical.signal = "hold" /\ probe.ai.signal = "hold")
    => /\ probe.out.signal = "hold"
       /\ probe.out.confidence =
            4 * probe.technical.confidence + 6 * probe.ai.confidence

\* two holds of confidence 0.3 and 0.8 were fused to {hold, 0.60}
C24_Witness ==
  /\ Fused
  /\ probe.technical = [signal |-> "hold", confidence |-> 300]
  /\ probe.ai = [signal |-> "hold", confidence |-> 800]
  /\ probe.out = [signal |-> "hold", confidence |-> 6000]

\* C25: when one signal is buy and the other is sell, the fused signal is
\* {hold, 0.3} whatever the two confidences are.
C25_FusionDisagreement ==
  (Fused /\ {probe.technical.signal, probe.ai.signal} = {"buy", "sell"})
    => probe.out = [signal |-> "hold", confidence |-> 3000]

\* a technical buy and the predictor's sell, both of confidence 1.0, were
\* fused to {hold, 0.3}
C25_Witness ==
  /\ Fused
  /\ probe.technical = [signal |-> "buy", confidence |-> 1000]
  /\ probe.ai = [signal |-> "sell", confidence |-> 1000]
  /\ probe.out = [signal |-> "hold", confidence |-> 3000]

\* C26: calculatePositionSize called with a stop distance <= 0 does not
\* return a lot size: its result is no finite number of lots.
C26_SizingRejectsNoStop ==
  (probe.fn = "calculatePositionSize" /\ probe.stopLossDistance <= 0)
    => (probe.out = Infinity \/ probe.out = -Infinity)

\* C27: with f = (winRate*avgWin - (1-winRate)*avgLoss) / avgWin,
\* calculateKellyPositionSize returns half the default size whenever f <= 0,
\* winRate = 0 included, and otherwise the lots of balance * min(f, 25%)
\* over the configured stop distance, as calculatePositionSize converts them.
C27_KellySizing ==
  (probe.fn = "calculateKellyPositionSize" /\ probe.avgWin > 0)
    => LET k == probe.winRate * probe.avgWin
                  - (100 - probe.winRate) * probe.avgLoss
       IN IF k <= 0
            THEN 2 * probe.out = cfg.positionSize
          ELSE IF k >= 25 * probe.avgWin
            THEN probe.out = CalculatePositionSize(probe.accountBalance,
                                                   cfg.stopLoss, 25)
          ELSE probe.out =
                 RoundDiv(probe.accountBalance * k,
                          probe.avgWin * cfg.stopLoss * 10)

\* the cycle whose market update was the last one, while it is in flight
Observed(c) ==
  /\ probe.fn = "cycleMarket"
  /\ probe.cycle = c
  /\ cyc[c].pc \notin {"idle", "market"}

\* C28: a cycle whose snapshot held fewer than 50 bars when its indicators
\* were due generates no signal (it never goes on to the predictor with
\* whatever indicators are left) and submits no order.
C28_ShortSnapshotSkipsSignals ==
  \A c \in Cycles :
    (Observed(c) /\ probe.bars < 50)
      => cyc[c].pc \notin {"ai", "tradeBalance", "place"}

\* C29: after a candle is appended the snapshot holds at most 500 candles in
\* the order they came; appended to a full window, the candle is the last
\* of 500 and only the oldest candles are gone.
C29_WindowKeepsLatest ==
  probe.fn = "updateMarketData"
    => LET all == Append(probe.before, probe.candle)
           gone == IF Len(all) > 500 THEN Len(all) - 500 ELSE 0
       IN /\ Len(probe.marketData) <= 500
          /\ Len(probe.marketData) = Len(all) - gone
          /\ \A i \in 1..Len(probe.marketData) :
               probe.marketData[i] = all[i + gone]

\* a candle was appended to a window of 500: the oldest candle went, the
\* new one is last
C29_Witness ==
  /\ probe.fn = "updateMarketData"
  /\ Len(probe.before) = 500
  /\ Len(probe.marketData) = 500
  /\ probe.marketData[500] = probe.candle
  /\ probe.marketData[1] = probe.before[2]

\* C30: a cycle whose price request failed submits no order.
C30_StalePriceBlocksOrder ==
  \A c \in Cycles :
    (Observed(c) /\ ~probe.priceOk) => cyc[c].pc # "place"

\* C31: a denial is never silent: when canPlaceTrade has turned a proposed
\* trade down, and when shouldCloseAllPositions has had the positions closed,
\* the step has handed an event to the subscribers.
C31_DenialsAreReported ==
  /\ (probe.fn = "executeTrade" /\ probe.ok /\ ~probe.canTrade.allowed)
       => probe.events # {}
  /\ (probe.fn = "performRiskChecks" /\ probe.shouldClose
        /\ cyc[probe.cycle].pc # "closing")
       => probe.events # {}

\* the trades of cycle c that onTradeConfirmationRequired approved:
\* executeTrade asks for no approval and nothing ever enters
\* tradeConfirmationQueue
TradeConfirmationQueue(c) == {}

\* C32: in Live mode with manual confirmation no order goes to the broker
\* unless the confirmation callback approved that trade
C32_LiveTradesApproved ==
  \A c \in Cycles :
    (cyc[c].pc = "place" /\ cfg.isLive /\ cfg.requireManualConfirmation)
      => cyc[c].fused \in TradeConfirmationQueue(c)

\* C33: a manual stop takes the bot from running to stopped with its timer
\* cancelled and changes nothing else of the safety state: the emergency
\* flag and its history stay, no close request is issued and the open
\* positions stay, and what a later start needs (a verified account, the
\* broker client, a bot that is not running) is in place
C33_ManualStopFrame ==
  [][ManagerStop =>
       /\ ~isRunning' /\ ~tradingInterval' /\ ~isActive'
       /\ UNCHANGED <<emergencyStopActive, emergencyStopReasons>>
       /\ UNCHANGED <<stopCalls, pendingUpdates, positions, brokerOpen>>
       /\ UNCHANGED <<accountVerified, apiReady, cfg>>]_vars

\* the bot was stopped by hand with a position open at the broker and no
\* emergency on record
C33_Witness ==
  /\ ~isRunning /\ ~isConnected /\ accountVerified
  /\ brokerOpen > 0
  /\ positions # <<>>
  /\ ~emergencyStopActive /\ emergencyStopReasons = <<>>

\* C34: once stop() has returned no trading cycle begins before start() is
\* called again; cycles in flight may go on
C34_StopCancelsTimer ==
  [][(probe.fn = "stop" /\ probe'.fn = "stop")
       => \A c \in Cycles : cyc[c].pc = "idle" => cyc'[c].pc = "idle"]_vars

\* ------------------------------------------ TradingBot.start() overlapping

MaxTimers == 3

\* a second caller of TradingBot.start() (the store's startAutomaticTrading)
\* is followed in probe: where its call stands
StartInFlight == probe.fn = "start" /\ probe.pc \in {"connect", "load"}

\* start() calls that may still arm a timer
StartsInFlight ==
  (IF startCall.pc = "idle" THEN 0 ELSE 1) + (IF StartInFlight THEN 1 ELSE 0)

\* start() called directly: it throws on a running bot or without a broker
\* client, else it awaits testConnection
BotStartCall ==
  /\ ~StartInFlight
  /\ armedTimers + StartsInFlight < MaxTimers
  /\ probe' = [fn |-> "start",
               pc |-> IF isRunning \/ ~apiReady THEN "thrown"
                      ELSE "connect"]
  /\ UNCHANGED <<cfg, initCall, lowBalanceAlert, now, mgrVars, callVars,
                 botVars, cyc, brokerOpen>>

\* testConnection answered the direct call; on success loadMarketData is
\* awaited, else start() throws
BotStartConnected ==
  /\ probe.fn = "start" /\ probe.pc = "connect"
  /\ \E connected \in BOOLEAN :
       probe' = [probe EXCEPT !.pc = IF connected THEN "load" ELSE "thrown"]
  /\ UNCHANGED <<cfg, initCall, lowBalanceAlert, now, mgrVars, callVars,
                 botVars, cyc, brokerOpen>>

\* the history request of the direct call answered: the bot is set running
\* and setInterval arms a timer whose handle replaces the one held
BotStartLoaded ==
  /\ probe.fn = "start" /\ probe.pc = "load"
  /\ \/ marketLen' \in HistoryCounts
     \/ UNCHANGED marketLen
  /\ isRunning' = TRUE
  /\ isActive' = TRUE
  /\ tradingInterval' = TRUE
  /\ armedTimers' = armedTimers + 1
  /\ probe' = [probe EXCEPT !.pc = "started"]
  /\ UNCHANGED <<cfg, initCall, lowBalanceAlert, now, mgrVars, callVars,
                 apiReady, currentPrice, indicators, positions, rmVars,
                 cyc, brokerOpen>>

\* startLiveTrading while timers can still be counted
StartLiveTradingInBound ==
  /\ armedTimers + StartsInFlight < MaxTimers
  /\ StartLiveTrading

\* start() called by two callers, and stop()
NextStarts ==
  \/ InitializeLiveTrading
  \/ InitVerifiedFunded
  \/ StartLiveTradingInBound
  \/ StartConfirmed
  \/ StartConnected
  \/ StartLoaded
  \/ BotStartCall
  \/ BotStartConnected
  \/ BotStartLoaded
  \/ ManagerStop
  \/ TimerFireInTime
  \/ CycleSteps

SpecStarts == Init /\ [][NextStarts]_vars

\* ------------------------------------------------- the two order paths

MaxLotSteps == 30

\* lot sizes are counted in 1/100000 lot, so that one unit is one step
LotScale == 100000

\* units per lot of the automatic path
BotUnitsPerLot == 100000

\* units per lot of the manual path
ServiceUnitsPerLot == 10000

\* lot sizes an order is placed with: 0.00125 lot and its multiples
OrderLots == {k * 125 : k \in 1..MaxLotSteps}

\* the sign OandaAPI.placeTrade and RealTradingService give the units
SignedUnits(type, units) == IF type = "buy" THEN units ELSE -units

\* TradingBot.executeTrade: placeTrade(signal, positionSize * 100000, ...)
BotOrderUnits(type, lots) ==
  SignedUnits(type, (lots * BotUnitsPerLot) \div LotScale)

\* RealTradingService.executeTrade: Math.round(lotSize * 10000), signed
ServiceOrderUnits(type, lots) ==
  SignedUnits(type, RoundDiv(lots * ServiceUnitsPerLot, LotScale))

\* an order of the automatic path
BotOrderCall ==
  /\ \E type \in {"buy", "sell"}, lots \in OrderLots :
       probe' = [fn |-> "order", path |-> "TradingBot", type |-> type,
                 lots |-> lots, units |-> BotOrderUnits(type, lots)]
  /\ UNCHANGED <<cfg, initCall, lowBalanceAlert, now, mgrVars, callVars,
                 botVars, cyc, brokerOpen>>

\* an order of the manual path
ServiceOrderCall ==
  /\ \E type \in {"buy", "sell"}, lots \in OrderLots :
       probe' = [fn |-> "order", path |-> "RealTradingService",
                 type |-> type, lots |-> lots,
                 units |-> ServiceOrderUnits(type, lots)]
  /\ UNCHANGED <<cfg, initCall, lowBalanceAlert, now, mgrVars, callVars,
                 botVars, cyc, brokerOpen>>

NextUnits ==
  \/ BotOrderCall
  \/ ServiceOrderCall

SpecUnits == Init /\ [][NextUnits]_vars

\* C35: on either order path the broker is sent lots * 100,000 units, with
\* the sign of the side
C35_OneLotUnits ==
  probe.fn = "order" =>
    probe.units * LotScale = SignedUnits(probe.type, probe.lots * 100000)

\* C36: no cycle hands an order to the broker while emergencyStopActive is
\* set, a cycle that was in flight when the stop was triggered included
C36_NoOrderDuringEmergencyStop ==
  [][\A c \in Cycles :
       (cyc[c].pc # "place" /\ cyc'[c].pc = "place")
         => ~emergencyStopActive]_vars

\* C37: at most one interval timer is armed, and one is armed exactly when
\* isRunning is true, however start() and stop() calls interleave
C37_OneTimer ==
  /\ armedTimers <= 1
  /\ (armedTimers = 1) <=> isRunning

\* C38: the emergency flag is set exactly while the history is non-empty;
\* the history changes only by triggerEmergencyStop appending its reason
\* at the end, or by a clearEmergencyStop that returns true emptying it
C38_HistoryMatchesFlag ==
  [][/\ emergencyStopActive <=> (emergencyStopReasons # <<>>)
     /\ emergencyStopActive' <=> (emergencyStopReasons' # <<>>)
     /\ emergencyStopReasons' # emergencyStopReasons =>
          \/ \E kind \in Kinds :
               /\ TriggerEmergencyStop(kind)
               /\ emergencyStopReasons' = Append(emergencyStopReasons, kind)
          \/ /\ ClearEmergencyStop
             /\ lastReturn' = "true"
             /\ emergencyStopReasons' = <<>>]_vars

\* two stops on record, in the order they were triggered
C38_Witness ==
  /\ emergencyStopActive
  /\ emergencyStopReasons = <<"consecutive_losses", "manual">>

\* C39: a fused signal passes the execution gate only when the technical
\* and the predictor signal name the same action and that action is not
\* hold; one source alone or two that disagree stay below the gate
C39_OnlyAgreementPassesGate ==
  (Fused /\ PassesGate(probe.out)) =>
    /\ probe.technical.signal = probe.ai.signal
    /\ probe.technical.signal # "hold"

\* two sell signals whose fused confidence passes the gate
C39_Witness ==
  /\ Fused
  /\ PassesGate(probe.out)
  /\ probe.technical.signal = "sell"
  /\ probe.ai.signal = "sell"

\* ------------------------------------------- stops handed to validateTrade

\* entry prices in pips (0.0020, 0.0050 and the quoted price) and the pip
\* distances calculateStopLossTakeProfit is called with
EntryPrices == {20, 50, QuotedPrice}
StopPips == {10, 20, 50}
TargetPips == {10, 15, 29, 30, 31, 50, 75}

\* the errors of validateTrade about the side of a stop
SideErrors ==
  {"Stop loss must be below entry price for buy orders",
   "Take profit must be above entry price for buy orders",
   "Stop loss must be above entry price for sell orders",
   "Take profit must be below entry price for sell orders"}

\* calculateStopLossTakeProfit(entryPrice, tradeType, stopLossPips,
\* takeProfitPips), and validateTrade of a trade with the stops it returned
StopsValidatedCall ==
  /\ \E entryPrice \in EntryPrices, tradeType \in {"buy", "sell"},
        stopLossPips \in StopPips, takeProfitPips \in TargetPips :
       LET stops == CalculateStopLossTakeProfit(entryPrice, tradeType,
                                                stopLossPips, takeProfitPips)
           trade == [pair |-> "EUR/USD", type |-> tradeType, size |-> 50,
                     openPrice |-> entryPrice, stopLoss |-> stops.stopLoss,
                     takeProfit |-> stops.takeProfit]
       IN probe' = [fn |-> "calculateStopLossTakeProfit",
                    entryPrice |-> entryPrice, tradeType |-> tradeType,
                    stopLossPips |-> stopLossPips,
                    takeProfitPips |-> takeProfitPips, stops |-> stops,
                    out |-> ValidateTrade(trade)]
  /\ UNCHANGED <<cfg, initCall, lowBalanceAlert, now, mgrVars, callVars,
                 botVars, cyc, brokerOpen>>

NextStops == StopsValidatedCall

SpecStops == Init /\ [][NextStops]_vars

\* C40: for a positive entry price and positive pip distances, validateTrade
\* finds the stops of calculateStopLossTakeProfit on the right side of the
\* entry, and its risk-reward rule passes exactly when
\* takeProfitPips >= 1.5 * stopLossPips
C40_StopsConsistent ==
  probe.fn = "calculateStopLossTakeProfit" =>
    /\ probe.out.errors \cap SideErrors = {}
    /\ ("Risk-reward ratio too low (minimum 1.5:1)" \notin probe.out.errors)
         <=> (2 * probe.takeProfitPips >= 3 * probe.stopLossPips)

====
